---- MODULE Spec2Model ----
(***************************************************************************)
(* State-machine model of the copy-trading pipeline: Wallet Monitor ->     *)
(* Signal Validator -> Trade Executor -> Position Manager, the Safety      *)
(* Rails with the kill switch, the Agent Brain loop and the Store rows     *)
(* they share (signals, trades, positions).                                *)
(*                                                                         *)
(* Units.  Native-coin amounts are integers in 0.001 SOL.  Prices are      *)
(* integers in an arbitrary USD unit.  Multipliers are integers in tenths  *)
(* (2.0x = 20), sell fractions in percent (0.5 = 50), confidences in       *)
(* thousandths (0.8 = 800).  The clock counts 5-minute units, so one day   *)
(* is 288 units.                                                           *)
(***************************************************************************)
EXTENDS Integers, Sequences, FiniteSets, TLC

VARIABLES
    run_mode,          \* branch of main(): "full_bot" or "agent"
    trading_mode,      \* settings.trading_mode
    trading_paused,    \* settings.trading_paused, the kill switch
    now,               \* wall clock, 5-minute units
    signals,           \* rows of table signals, index = id
    trades,            \* rows of table trades, index = id
    positions,         \* rows of table positions, index = id
    swaps,             \* number of swaps submitted on chain
    recent_signals,    \* WalletMonitor.recent_signals (dedup keys)
    recent_buys,       \* SignalGenerator._recent_buys: mint -> seq of <<wallet, ts>>
    mon_active,        \* the Monitor is inside a poll cycle that passed its pause check
    pending,           \* validated signal between validate_signal and handle_signal
    pm_queue,          \* Position Manager: rows of the current tick not yet checked
    recent_decisions,  \* AgentBrain._recent_decisions: mint -> ts (0 = none)
    brain_queue,       \* agent_loop: buy decisions of the cycle not yet executed
    tp_history,        \* history: <<position id, level>> pairs whose partial sell ran
                       \* (once) and those whose partial sell ran again (again)
    last_message,      \* the last message sent to the operator's chat, "" if none
    chain,             \* wallet -> its transactions on chain, oldest first (the
                       \* mint bought, 0 for a transaction that is not a buy)
    last_signatures,   \* WalletMonitor.last_signatures: wallet -> index in chain of
                       \* the last transaction seen (0 = the one before the first)
    batch,             \* _check_wallet: parsed transactions of the poll not yet
                       \* looked at, each [wallet, idx]
    emitted,           \* history: the transactions whose signal was persisted, in
                       \* the order of persisting
    dedup_order,       \* history: the keys of recent_signals, oldest insertion first
    handler_failed,    \* history: ids of the signals whose on_signal call raised
    calc,              \* a function of the program applied on its own: its name
                       \* (fn), its arguments and its result
    strategy,          \* AgentBrain.strategy, the in-memory strategy
    strategy_file,     \* content of agent_strategy.json
    save_pc,           \* _save_strategy: "idle", or "writing" between open() and close
    save_hist,         \* history: the file before the last save began (old) and the
                       \* document that save writes (new)
    wallet_rows,       \* rows of table wallets as the analyzer writes them:
                       \* address -> its row, NoRow while there is none
    life,              \* main(): where the process is between start and exit
                       \* (pc), the components initialised and those closed
    journal,           \* table agent_decisions: whether the database has it, and
                       \* its rows (index = id)
    buying             \* the tasks whose _execute_buy has passed pre_trade_check
                       \* and awaits its quote, swap and confirmation

vars == << run_mode, trading_mode, trading_paused, now, signals, trades,
           positions, swaps, recent_signals, recent_buys, mon_active, pending,
           pm_queue, recent_decisions, brain_queue, tp_history, last_message,
           chain, last_signatures, batch, emitted, dedup_order,
           handler_failed, calc, strategy, strategy_file, save_pc, save_hist,
           wallet_rows, life, journal, buying >>

\* the pipeline's state
pipevars == << run_mode, trading_mode, trading_paused, now, signals, trades,
               positions, swaps, recent_signals, recent_buys, mon_active, pending,
               pm_queue, recent_decisions, brain_queue, tp_history, last_message >>

\* state of the components that are specified on their own
\* the Brain's strategy and its file
stratvars == << strategy, strategy_file, save_pc, save_hist >>

\* the analyzer's table and the life cycle of main()
appvars == << wallet_rows, life >>

\* the Brain's decision journal and counters
brainvars == << journal, buying >>

\* what no step of the agent loop writes
othervars == << dedup_order, handler_failed, calc, stratvars, appvars >>

sidevars == << othervars, brainvars >>

\* state of the Monitor's walk over a wallet's chain history
monvars == << chain, last_signatures, batch, emitted >>

----------------------------------------------------------------------------
(* Bounds of the model *)

\* the addresses the analyzer can meet
Addresses == 1..3

MaxSignals == 3
MaxTrades == 3
MaxPositions == 3
MaxClock == 576
MaxJournal == 3

(* Universe of wallets and mints *)
Wallets == {1, 2}
Mints == {1}

DayLen == 288

----------------------------------------------------------------------------
(* Settings (config/settings.py).  The risk limits are read from the       *)
(* environment; the model runs a configuration with small limits.          *)

default_position_size_sol == 10
max_position_size_sol == 15
max_open_positions == 2
max_daily_loss_sol == 10
min_liquidity_usd == 10
min_copy_trade_mcap_usd == 50
max_copy_trade_mcap_usd == 100000
token_blacklist == {3}
take_profit_levels == << 20, 50 >>
take_profit_percentages == << 50, 100 >>
stop_loss_multiplier == 5

(* Settings read by the Validator that settings.py does not declare *)
consensus_window_seconds == 1
consensus_position_multiplier == 20
bot_position_multiplier == 5

(* wallets table: score and bot flag of the monitored wallets *)
total_score == [w \in Wallets |-> IF w = 1 THEN 30 ELSE 100]
is_bot_speed == [w \in Wallets |-> w = 2]

(* Exit rules by signal source type *)
EXIT_RULES == [
    human |-> [tp_levels |-> << [multiplier |-> 20, pct |-> 50],
                                [multiplier |-> 40, pct |-> 50],
                                [multiplier |-> 80, pct |-> 100] >>,
               sl_multiplier |-> 6, max_hold_hours |-> 288],
    bot |-> [tp_levels |-> << [multiplier |-> 15, pct |-> 50],
                              [multiplier |-> 25, pct |-> 100] >>,
             sl_multiplier |-> 8, max_hold_hours |-> 24],
    consensus |-> [tp_levels |-> << [multiplier |-> 20, pct |-> 33],
                                    [multiplier |-> 50, pct |-> 50],
                                    [multiplier |-> 100, pct |-> 100] >>,
                   sl_multiplier |-> 7, max_hold_hours |-> 576] ]

----------------------------------------------------------------------------
(* Inputs from the outside world, drawn from small sets *)

\* token data returned by the market-data providers; price 0 = no data
TokenDataInputs ==
    { [has_data |-> FALSE, price_usd |-> 0, liquidity_usd |-> 0, market_cap_usd |-> 0],
      [has_data |-> TRUE, price_usd |-> 10, liquidity_usd |-> 20, market_cap_usd |-> 500],
      [has_data |-> TRUE, price_usd |-> 10, liquidity_usd |-> 5, market_cap_usd |-> 500] }
SolSpentInputs == {1000}
BalanceInputs == {5, 1000}
TokensOutInputs == {100}
SolOutInputs == {5, 30}
SolPriceInputs == {0, 100}
PriceInputs == {0, 5, 7, 50}

----------------------------------------------------------------------------
(* Store: computed aggregates *)

Day(t) == t \div DayLen

RECURSIVE SumPnl(_, _, _)
SumPnl(tr, n, day) ==
    IF n = 0 THEN 0
    ELSE SumPnl(tr, n - 1, day) +
         (IF tr[n].status = "confirmed" /\ Day(tr[n].created_at) = day
          THEN (IF tr[n].side = "sell" THEN tr[n].amount_sol
                ELSE IF tr[n].side = "buy" THEN 0 - tr[n].amount_sol ELSE 0)
          ELSE 0)

get_todays_pnl(tr, t) == SumPnl(tr, Len(tr), Day(t))

OpenIds(pos) == {i \in 1..Len(pos) : pos[i].status = "open"}

\* variant: the query counts the rows with status closed
get_open_position_count_closed(pos) ==
    Cardinality({i \in 1..Len(pos) : pos[i].status = "closed"})

get_open_position_count(pos) == Cardinality(OpenIds(pos))

\* id of the open position of a mint that the query returns first, 0 if none
get_position_by_token(pos, mint) ==
    LET ids == {i \in OpenIds(pos) : pos[i].token_mint = mint}
    IN IF ids = {} THEN 0 ELSE CHOOSE i \in ids : \A j \in ids : i <= j

RECURSIVE get_open_positions_from(_, _)
get_open_positions_from(pos, i) ==
    IF i > Len(pos) THEN << >>
    ELSE IF pos[i].status = "open"
         THEN << pos[i] >> \o get_open_positions_from(pos, i + 1)
         ELSE get_open_positions_from(pos, i + 1)

get_open_positions(pos) == get_open_positions_from(pos, 1)

(* Store: writes *)

\* variant: the signal is linked to the id after the inserted trade's
mark_signal_executed_next_id(sg, signal_id, trade_id) ==
    [i \in 1..Len(sg) |->
        IF i = signal_id THEN [sg[i] EXCEPT !.executed = TRUE, !.trade_id = trade_id + 1]
        ELSE sg[i]]

mark_signal_executed(sg, signal_id, trade_id) ==
    [i \in 1..Len(sg) |->
        IF i = signal_id THEN [sg[i] EXCEPT !.executed = TRUE, !.trade_id = trade_id]
        ELSE sg[i]]

mark_signal_skipped(sg, signal_id, reason) ==
    [i \in 1..Len(sg) |->
        IF i = signal_id THEN [sg[i] EXCEPT !.skip_reason = reason] ELSE sg[i]]

TradeRow(mint, side, amount, status, signal_id, err, t) ==
    [token_mint |-> mint, side |-> side, amount_sol |-> amount, status |-> status,
     signal_id |-> signal_id, error_message |-> err, created_at |-> t]

insert_trade(tr, row) == Append(tr, row)

\* signal_source is not a column of the table: it records the source type of
\* the signal the position was opened from
open_position(pos, mint, price, invested, tokens, tp, sl, source, t) ==
    Append(pos, [id |-> Len(pos) + 1, token_mint |-> mint, entry_price_usd |-> price,
                 current_price_usd |-> 0, amount_sol_invested |-> invested,
                 amount_tokens_held |-> tokens, take_profit_levels |-> tp,
                 stop_loss_price |-> sl,
                 status |-> "open", close_reason |-> "", realized_pnl_sol |-> 0,
                 unrealized_pnl_sol |-> 0, opened_at |-> t, closed_at |-> 0 - 1,
                 signal_source |-> source, sold_native |-> 0])

close_position(pos, position_id, reason, realized_pnl, t) ==
    [i \in 1..Len(pos) |->
        IF i = position_id
        THEN [pos[i] EXCEPT !.status = "closed", !.close_reason = reason,
                            !.realized_pnl_sol = realized_pnl, !.closed_at = t]
        ELSE pos[i]]

update_position_price(pos, position_id, current_price, unrealized_pnl) ==
    [i \in 1..Len(pos) |->
        IF i = position_id
        THEN [pos[i] EXCEPT !.current_price_usd = current_price,
                            !.unrealized_pnl_sol = unrealized_pnl]
        ELSE pos[i]]

----------------------------------------------------------------------------
(* Safety Rails *)

\* variant: the rails without Rail 1, the kill switch
pre_trade_check_no_rail_1(mint, wallet_balance_sol, paused, mode, tr, pos, t) ==
    IF mode # "live" THEN [allow |-> FALSE, reason |-> "not_live", paused |-> paused]
    ELSE IF get_todays_pnl(tr, t) <= 0 - max_daily_loss_sol
         THEN [allow |-> FALSE, reason |-> "daily_loss_limit", paused |-> TRUE]
    ELSE IF get_open_position_count(pos) >= max_open_positions
         THEN [allow |-> FALSE, reason |-> "max_positions", paused |-> paused]
    ELSE IF /\ get_position_by_token(pos, mint) # 0
            /\ pos[get_position_by_token(pos, mint)].amount_sol_invested
                   >= max_position_size_sol
         THEN [allow |-> FALSE, reason |-> "max_position_size", paused |-> paused]
    ELSE IF wallet_balance_sol < default_position_size_sol + 10
         THEN [allow |-> FALSE, reason |-> "insufficient_balance", paused |-> paused]
    ELSE [allow |-> TRUE, reason |-> "", paused |-> paused]

pre_trade_check(mint, wallet_balance_sol, paused, mode, tr, pos, t) ==
    IF paused THEN [allow |-> FALSE, reason |-> "kill_switch", paused |-> paused]
    ELSE IF mode # "live" THEN [allow |-> FALSE, reason |-> "not_live", paused |-> paused]
    ELSE IF get_todays_pnl(tr, t) <= 0 - max_daily_loss_sol
         THEN [allow |-> FALSE, reason |-> "daily_loss_limit", paused |-> TRUE]
    ELSE IF get_open_position_count(pos) >= max_open_positions
         THEN [allow |-> FALSE, reason |-> "max_positions", paused |-> paused]
    ELSE IF /\ get_position_by_token(pos, mint) # 0
            /\ pos[get_position_by_token(pos, mint)].amount_sol_invested
                   >= max_position_size_sol
         THEN [allow |-> FALSE, reason |-> "max_position_size", paused |-> paused]
    ELSE IF wallet_balance_sol < default_position_size_sol + 10
         THEN [allow |-> FALSE, reason |-> "insufficient_balance", paused |-> paused]
    ELSE [allow |-> TRUE, reason |-> "", paused |-> paused]

\* variant: the switch follows today's PnL instead of latching
post_trade_check_follows_pnl(paused, tr, t) ==
    get_todays_pnl(tr, t) <= 0 - max_daily_loss_sol

\* the value of the kill switch after the check
post_trade_check(paused, tr, t) ==
    IF get_todays_pnl(tr, t) <= 0 - max_daily_loss_sol THEN TRUE ELSE paused

Min(a, b) == IF a <= b THEN a ELSE b
Max(a, b) == IF a >= b THEN a ELSE b

calculate_position_size(confidence, wallet_balance_sol) ==
    LET size0 == Min(default_position_size_sol, wallet_balance_sol \div 2)
        size1 == IF confidence >= 800 THEN Min(size0, max_position_size_sol)
                 ELSE IF confidence >= 600
                      THEN Min((size0 * 8) \div 10, max_position_size_sol)
                      ELSE size0
    IN Max(Min(size1, max_position_size_sol), 1)

----------------------------------------------------------------------------
(* Swap adapter.  main() hands the wallet's private key to the Solana      *)
(* client in live mode only, so no other mode has a keypair to sign with.  *)

keypair_loaded(mode) == mode = "live"

\* variant: the keypair is loaded in every trading mode
execute_swap_any_mode(swap_ok, mode) == swap_ok

\* variant: the executor goes on as if every swap had been submitted
execute_swap_never_fails(swap_ok, mode) == TRUE

\* a transaction is submitted: the router built it and a keypair signed it
execute_swap(swap_ok, mode) == swap_ok /\ keypair_loaded(mode)

----------------------------------------------------------------------------
(* Trade Executor: buys.  Each operator returns the Store and the kill     *)
(* switch as the call leaves them; trade_id is 0 when the call returns     *)
(* None.                                                                   *)

Outcome(tr, sg, pos, paused, nswaps, trade_id) ==
    [trades |-> tr, signals |-> sg, positions |-> pos, paused |-> paused,
     swaps |-> nswaps, trade_id |-> trade_id]

\* live ladder: zip(settings.take_profit_levels, settings.take_profit_percentages)
SettingsLadder ==
    [i \in 1..Min(Len(take_profit_levels), Len(take_profit_percentages)) |->
        [multiplier |-> take_profit_levels[i], pct |-> take_profit_percentages[i],
         hit |-> FALSE]]

RulesLadder(source_type) ==
    [i \in 1..Len(EXIT_RULES[source_type].tp_levels) |->
        [multiplier |-> EXIT_RULES[source_type].tp_levels[i].multiplier,
         pct |-> EXIT_RULES[source_type].tp_levels[i].pct, hit |-> FALSE]]

\* _execute_buy from the position size on, after pre_trade_check allowed it
\* inp: balance, quote_ok, swap_ok, confirmed, out_tokens
BuyAfterCheck(sig, inp, paused, mode, tr, sg, pos, nswaps, t) ==
    LET size == calculate_position_size(sig.confidence, inp.balance)
        status == IF inp.confirmed THEN "confirmed" ELSE "unconfirmed"
        tr1 == insert_trade(tr, TradeRow(sig.token_mint, "buy", size, status,
                                         sig.signal_id, "", t))
        sg1 == IF sig.signal_id # 0 THEN mark_signal_executed(sg, sig.signal_id, Len(tr1))
               ELSE sg
        pos1 == IF inp.confirmed
                THEN open_position(pos, sig.token_mint, sig.price_usd, size,
                                   inp.out_tokens, SettingsLadder,
                                   (sig.price_usd * stop_loss_multiplier) \div 10,
                                   sig.signal_source_type, t)
                ELSE pos
    IN IF ~inp.quote_ok
       THEN Outcome(insert_trade(tr, TradeRow(sig.token_mint, "buy", size, "failed",
                                              sig.signal_id, "quote_failed", t)),
                    sg, pos, paused, nswaps, 0)
       ELSE IF ~execute_swap(inp.swap_ok, mode)
       THEN Outcome(insert_trade(tr, TradeRow(sig.token_mint, "buy", size, "failed",
                                              sig.signal_id, "swap_failed", t)),
                    sg, pos, paused, nswaps, 0)
       ELSE Outcome(tr1, sg1, pos1, post_trade_check(paused, tr1, t),
                    nswaps + 1, Len(tr1))

\* _execute_buy when pre_trade_check blocks the trade
BuyBlocked(sig, chk, tr, sg, pos, nswaps) ==
    Outcome(tr,
            IF sig.signal_id # 0
            THEN mark_signal_skipped(sg, sig.signal_id, chk.reason) ELSE sg,
            pos, chk.paused, nswaps, 0)

\* inp: balance, quote_ok, swap_ok, confirmed, out_tokens
_execute_buy(sig, inp, paused, mode, tr, sg, pos, nswaps, t) ==
    LET chk == pre_trade_check(sig.token_mint, inp.balance, paused, mode, tr, pos, t)
    IN IF ~chk.allow
       THEN BuyBlocked(sig, chk, tr, sg, pos, nswaps)
       ELSE BuyAfterCheck(sig, inp, chk.paused, mode, tr, sg, pos, nswaps, t)

\* inp: sol_price (0 when the SOL price lookup fails)
_dry_run_buy(sig, inp, paused, tr, sg, pos, nswaps, t) ==
    LET position_size == IF sig.position_size_sol # 0 THEN sig.position_size_sol
                         ELSE default_position_size_sol
        tr1 == insert_trade(tr, TradeRow(sig.token_mint, "buy", position_size,
                                         "dry_run", sig.signal_id, "", t))
        sg1 == IF sig.signal_id # 0 THEN mark_signal_executed(sg, sig.signal_id, Len(tr1))
               ELSE sg
        source_type == sig.signal_source_type
        estimated_tokens == IF inp.sol_price # 0
                            THEN (position_size * inp.sol_price) \div sig.price_usd
                            ELSE 0
    IN IF sig.price_usd <= 0
       THEN Outcome(tr1, sg1, pos, paused, nswaps, Len(tr1))
       ELSE Outcome(tr1, sg1,
                    open_position(pos, sig.token_mint, sig.price_usd, position_size,
                                  estimated_tokens, RulesLadder(source_type),
                                  (sig.price_usd * EXIT_RULES[source_type].sl_multiplier)
                                      \div 10,
                                  source_type, t),
                    paused, nswaps, Len(tr1))

handle_signal(sig, inp, paused, mode, tr, sg, pos, nswaps, t) ==
    IF mode = "dry_run" THEN _dry_run_buy(sig, inp, paused, tr, sg, pos, nswaps, t)
    ELSE IF mode = "alert_only" THEN Outcome(tr, sg, pos, paused, nswaps, 0)
    ELSE _execute_buy(sig, inp, paused, mode, tr, sg, pos, nswaps, t)

\* the outside-world inputs of one handle_signal call
\* (at most one thing goes wrong in a call)
BuyInputs ==
    {i \in [balance : BalanceInputs, quote_ok : BOOLEAN, swap_ok : BOOLEAN,
            confirmed : BOOLEAN, out_tokens : TokensOutInputs,
            sol_price : SolPriceInputs] :
        Cardinality({k \in 1..5 :
            << i.balance < 20, ~i.quote_ok, ~i.swap_ok, ~i.confirmed,
               i.sol_price = 0 >>[k]}) <= 1}

\* the answers a handle_signal call reads in a trading mode: the dry run asks
\* for the SOL price alone, the live buy for everything else, an alert for none
BuyInputsOf(mode) ==
    {i \in BuyInputs :
        /\ mode # "live" => i.balance >= 20 /\ i.quote_ok /\ i.swap_ok /\ i.confirmed
        /\ mode # "dry_run" => i.sol_price # 0}

----------------------------------------------------------------------------
(* Signal Validator *)

_get_wallet_type(wallet) == IF is_bot_speed[wallet] THEN "bot" ELSE "human"

RECURSIVE KeepRecent(_, _)
KeepRecent(buys, timestamp) ==
    IF buys = << >> THEN << >>
    ELSE IF timestamp - Head(buys)[2] <= consensus_window_seconds
         THEN << Head(buys) >> \o KeepRecent(Tail(buys), timestamp)
         ELSE KeepRecent(Tail(buys), timestamp)

_record_buy(rb, mint, wallet, timestamp) ==
    [rb EXCEPT ![mint] = KeepRecent(Append(rb[mint], << wallet, timestamp >>), timestamp)]

_check_consensus(rb, mint, now_ts) ==
    Cardinality({rb[mint][i][1] : i \in
        {j \in 1..Len(rb[mint]) : now_ts - rb[mint][j][2] <= consensus_window_seconds}})

SkipVerdict(sig, sg, paused, rb, reason) ==
    [should_trade |-> FALSE, signals |-> mark_signal_skipped(sg, sig.signal_id, reason),
     paused |-> paused, recent_buys |-> rb, enriched |-> sig, reason |-> reason]

\* variant: the daily-loss gate runs before the max-open-positions gate
validate_signal_loss_gate_first(sig, inp, paused, tr, sg, pos, rb, t) ==
    LET mint == sig.token_mint
        existing == get_position_by_token(pos, mint)
        td == inp.token_data
        withdata == [sig EXCEPT !.price_usd = td.price_usd]
        rb1 == _record_buy(rb, mint, sig.wallet_address, t)
        consensus_count == _check_consensus(rb1, mint, t)
        source_type == IF consensus_count >= 2 THEN "consensus"
                       ELSE _get_wallet_type(sig.wallet_address)
        position_size ==
            IF source_type = "consensus"
            THEN (default_position_size_sol * consensus_position_multiplier) \div 10
            ELSE IF source_type = "bot"
                 THEN (default_position_size_sol * bot_position_multiplier) \div 10
                 ELSE default_position_size_sol
    IN IF paused
       THEN [should_trade |-> FALSE, signals |-> sg, paused |-> paused,
             recent_buys |-> rb, enriched |-> sig, reason |-> "paused"]
       ELSE IF mint \in token_blacklist
       THEN SkipVerdict(sig, sg, paused, rb, "blacklisted")
       ELSE IF get_todays_pnl(tr, t) <= 0 - max_daily_loss_sol
       THEN SkipVerdict(sig, sg, TRUE, rb, "daily_loss_limit")
       ELSE IF get_open_position_count(pos) >= max_open_positions
       THEN SkipVerdict(sig, sg, paused, rb, "max_positions_reached")
       ELSE IF existing # 0 /\ pos[existing].amount_sol_invested >= max_position_size_sol
       THEN SkipVerdict(sig, sg, paused, rb, "max_position_size")
       ELSE IF td.has_data /\ td.liquidity_usd < min_liquidity_usd
       THEN SkipVerdict(withdata, sg, paused, rb, "low_liquidity")
       ELSE IF td.has_data /\ td.market_cap_usd > 0
               /\ td.market_cap_usd < min_copy_trade_mcap_usd
       THEN SkipVerdict(withdata, sg, paused, rb, "mcap_too_low")
       ELSE IF td.has_data /\ td.market_cap_usd > 0
               /\ td.market_cap_usd > max_copy_trade_mcap_usd
       THEN SkipVerdict(withdata, sg, paused, rb, "mcap_too_high")
       ELSE IF inp.is_honeypot
       THEN SkipVerdict(withdata, sg, paused, rb, "honeypot_detected")
       ELSE [should_trade |-> TRUE, signals |-> sg, paused |-> paused,
             recent_buys |-> rb1,
             enriched |-> [withdata EXCEPT !.signal_source_type = source_type,
                                           !.position_size_sol = position_size],
             reason |-> ""]

\* inp: token_data (record of TokenDataInputs), is_honeypot
validate_signal(sig, inp, paused, tr, sg, pos, rb, t) ==
    LET mint == sig.token_mint
        existing == get_position_by_token(pos, mint)
        td == inp.token_data
        withdata == [sig EXCEPT !.price_usd = td.price_usd]
        rb1 == _record_buy(rb, mint, sig.wallet_address, t)
        consensus_count == _check_consensus(rb1, mint, t)
        source_type == IF consensus_count >= 2 THEN "consensus"
                       ELSE _get_wallet_type(sig.wallet_address)
        position_size ==
            IF source_type = "consensus"
            THEN (default_position_size_sol * consensus_position_multiplier) \div 10
            ELSE IF source_type = "bot"
                 THEN (default_position_size_sol * bot_position_multiplier) \div 10
                 ELSE default_position_size_sol
    IN IF paused
       THEN [should_trade |-> FALSE, signals |-> sg, paused |-> paused,
             recent_buys |-> rb, enriched |-> sig, reason |-> "paused"]
       ELSE IF mint \in token_blacklist
       THEN SkipVerdict(sig, sg, paused, rb, "blacklisted")
       ELSE IF get_open_position_count(pos) >= max_open_positions
       THEN SkipVerdict(sig, sg, paused, rb, "max_positions_reached")
       ELSE IF get_todays_pnl(tr, t) <= 0 - max_daily_loss_sol
       THEN SkipVerdict(sig, sg, TRUE, rb, "daily_loss_limit")
       ELSE IF existing # 0 /\ pos[existing].amount_sol_invested >= max_position_size_sol
       THEN SkipVerdict(sig, sg, paused, rb, "max_position_size")
       ELSE IF td.has_data /\ td.liquidity_usd < min_liquidity_usd
       THEN SkipVerdict(withdata, sg, paused, rb, "low_liquidity")
       ELSE IF td.has_data /\ td.market_cap_usd > 0
               /\ td.market_cap_usd < min_copy_trade_mcap_usd
       THEN SkipVerdict(withdata, sg, paused, rb, "mcap_too_low")
       ELSE IF td.has_data /\ td.market_cap_usd > 0
               /\ td.market_cap_usd > max_copy_trade_mcap_usd
       THEN SkipVerdict(withdata, sg, paused, rb, "mcap_too_high")
       ELSE IF inp.is_honeypot
       THEN SkipVerdict(withdata, sg, paused, rb, "honeypot_detected")
       ELSE [should_trade |-> TRUE, signals |-> sg, paused |-> paused,
             recent_buys |-> rb1,
             enriched |-> [withdata EXCEPT !.signal_source_type = source_type,
                                           !.position_size_sol = position_size],
             reason |-> ""]

ValidateInputs ==
    {i \in [token_data : TokenDataInputs, is_honeypot : BOOLEAN] :
        i.is_honeypot => i.token_data.has_data /\ i.token_data.liquidity_usd >= min_liquidity_usd}

----------------------------------------------------------------------------
(* Wallet Monitor *)

\* size limit of the dedup set and the number of keys an overflow keeps (the
\* code's 1000 and 500, scaled down)
DedupCap == 4
DedupKeep == DedupCap \div 2

\* the dedup set after key was added: on overflow list(set)[-500:] keeps the
\* last keys in the set's iteration order, which is the hash order of the
\* strings: any DedupKeep keys
AfterDedupAdd(recent, key) ==
    LET added == recent \cup {key}
    IN IF Cardinality(added) > DedupCap
       THEN {kept \in SUBSET added : Cardinality(kept) = DedupKeep}
       ELSE {added}

\* variant: the baseline of 0.5 is left out
_calculate_confidence_no_baseline(score, sol_spent) ==
    Min(1000, score * 3 +
              (IF sol_spent >= 5000 THEN 200
               ELSE IF sol_spent >= 1000 THEN 150
               ELSE IF sol_spent >= 500 THEN 100 ELSE 0))

_calculate_confidence(score, sol_spent) ==
    Min(1000, 500 + score * 3 +
              (IF sol_spent >= 5000 THEN 200
               ELSE IF sol_spent >= 1000 THEN 150
               ELSE IF sol_spent >= 500 THEN 100 ELSE 0))

\* the signal dict handed to the callback; 0 stands for an absent key
SignalDict(signal_id, wallet, mint, score, confidence) ==
    [signal_id |-> signal_id, wallet_address |-> wallet, token_mint |-> mint,
     wallet_score |-> score, confidence |-> confidence, price_usd |-> 0,
     signal_source_type |-> "human", position_size_sol |-> 0]

SignalRow(wallet, mint, score, confidence, t) ==
    [wallet_address |-> wallet, token_mint |-> mint, signal_type |-> "buy",
     wallet_score |-> score, confidence |-> confidence, executed |-> FALSE,
     trade_id |-> 0, skip_reason |-> "", created_at |-> t]

insert_signal(sg, row) == Append(sg, row)

----------------------------------------------------------------------------
(* Trade Executor: sells.  position is the row the Position Manager read   *)
(* at the start of its tick.                                               *)

SellOutcome(tr, pos, paused, nswaps, done, tokens_to_sell) ==
    [trades |-> tr, positions |-> pos, paused |-> paused, swaps |-> nswaps,
     done |-> done, tokens_to_sell |-> tokens_to_sell]

\* history: add the proceeds of a sell to the position it belongs to
AddProceeds(pos, position_id, sol_received) ==
    [i \in 1..Len(pos) |->
        IF i = position_id
        THEN [pos[i] EXCEPT !.sold_native = pos[i].sold_native + sol_received]
        ELSE pos[i]]

\* inp: quote_ok, swap_ok, confirmed, sol_out
execute_sell(position, sell_percentage, reason, inp, paused, mode, tr, pos, nswaps, t) ==
    LET tokens_to_sell == (position.amount_tokens_held * sell_percentage) \div 100
        entry_price == position.entry_price_usd
        current_price == position.current_price_usd
        invested == position.amount_sol_invested
        simulated_pnl == IF entry_price > 0 /\ current_price > 0
                         THEN (invested * (current_price - entry_price)) \div entry_price
                         ELSE 0
        sol_received == inp.sol_out
        status == IF inp.confirmed THEN "confirmed" ELSE "unconfirmed"
        tr1 == insert_trade(tr, TradeRow(position.token_mint, "sell", sol_received,
                                         status, 0, "", t))
        pos1 == AddProceeds(pos, position.id, sol_received)
        pos2 == IF sell_percentage >= 100
                THEN close_position(pos1, position.id, reason, sol_received - invested, t)
                ELSE pos1
    IN IF tokens_to_sell <= 0
       THEN SellOutcome(tr, pos, paused, nswaps, FALSE, tokens_to_sell)
       ELSE IF mode = "dry_run"
       THEN SellOutcome(tr,
                        IF sell_percentage >= 100
                        THEN close_position(pos, position.id, reason, simulated_pnl, t)
                        ELSE pos,
                        paused, nswaps, TRUE, tokens_to_sell)
       ELSE IF ~inp.quote_ok
       THEN SellOutcome(tr, pos, paused, nswaps, FALSE, tokens_to_sell)
       ELSE IF ~execute_swap(inp.swap_ok, mode)
       THEN SellOutcome(tr, pos, paused, nswaps, FALSE, tokens_to_sell)
       ELSE SellOutcome(tr1, pos2, post_trade_check(paused, tr1, t), nswaps + 1,
                        TRUE, tokens_to_sell)

\* the answers of a call that reads none
NoSellInput == [quote_ok |-> TRUE, swap_ok |-> TRUE, confirmed |-> TRUE, sol_out |-> 30]

SellInputs ==
    {i \in [quote_ok : BOOLEAN, swap_ok : BOOLEAN, confirmed : BOOLEAN,
            sol_out : SolOutInputs] :
        Cardinality({k \in 1..3 : << ~i.quote_ok, ~i.swap_ok, ~i.confirmed >>[k]}) <= 1}

\* the dry run sells without a quote or a swap
SellInputsOf(mode) == IF mode = "dry_run" THEN {NoSellInput} ELSE SellInputs

----------------------------------------------------------------------------
(* Position Manager *)

\* opened_at is the Store's naive CURRENT_TIMESTAMP; subtracting it from the
\* timezone-aware now raises TypeError, which the hold check swallows
HoldTimeComputable == FALSE

MaxHoldExpired(position, rules, t) ==
    HoldTimeComputable /\ t - position.opened_at >= rules.max_hold_hours

\* variant: the take-profit loop without its break
RECURSIVE TriggeredLevels_no_break(_, _, _, _)
TriggeredLevels_no_break(tp_levels, i, current_price, entry_price) ==
    IF i > Len(tp_levels) THEN << >>
    ELSE IF tp_levels[i].hit
         THEN TriggeredLevels_no_break(tp_levels, i + 1, current_price, entry_price)
         ELSE IF current_price * 10 >= tp_levels[i].multiplier * entry_price
              THEN << i >> \o TriggeredLevels_no_break(tp_levels, i + 1, current_price,
                                                       entry_price)
              ELSE TriggeredLevels_no_break(tp_levels, i + 1, current_price, entry_price)

\* the take-profit loop: indices of the levels it triggers
RECURSIVE TriggeredLevels(_, _, _, _)
TriggeredLevels(tp_levels, i, current_price, entry_price) ==
    IF i > Len(tp_levels) THEN << >>
    ELSE IF tp_levels[i].hit
         THEN TriggeredLevels(tp_levels, i + 1, current_price, entry_price)
         ELSE IF current_price * 10 >= tp_levels[i].multiplier * entry_price
              THEN << i >>
              ELSE TriggeredLevels(tp_levels, i + 1, current_price, entry_price)

\* the exit the check of one position decides on: reason "" = none
ExitDecision(position, current_price, t) ==
    LET rules == EXIT_RULES["human"]
        stored == position.take_profit_levels
        tp_levels == IF Len(stored) = 0 THEN RulesLadder("human") ELSE stored
        fired == TriggeredLevels(tp_levels, 1, current_price, position.entry_price_usd)
    IN IF MaxHoldExpired(position, rules, t)
       THEN [reason |-> "max_hold_time", pct |-> 100, fired |-> << >>]
       ELSE IF current_price * 10 <= rules.sl_multiplier * position.entry_price_usd
       THEN [reason |-> "stop_loss", pct |-> 100, fired |-> << >>]
       ELSE IF fired # << >>
       THEN [reason |-> "take_profit", pct |-> tp_levels[Head(fired)].pct, fired |-> fired]
       ELSE [reason |-> "", pct |-> 0, fired |-> << >>]

----------------------------------------------------------------------------
(* Agent Brain.  The strategy holds its default values, except            *)
(* max_concurrent_decisions, which the model runs at 1 (default 5).        *)

min_confidence == 600
consensus_threshold == 2
position_scale == 10
max_concurrent_decisions == 1
cooldown_seconds == 1
ScanWindow == 6

\* scan_signals: ids of the signals of the last 30 minutes
ScannedIds(sg, t) == {i \in 1..Len(sg) : sg[i].created_at >= t - ScanWindow}

\* ORDER BY created_at DESC, rows of one instant in insertion order
ScanBefore(sg, i, j) ==
    \/ sg[i].created_at > sg[j].created_at
    \/ sg[i].created_at = sg[j].created_at /\ i < j

BuysOf(sg, t, mint) ==
    {i \in ScannedIds(sg, t) : sg[i].token_mint = mint /\ sg[i].signal_type = "buy"}

RECURSIVE SumOver(_, _)
SumOver(f, S) ==
    IF S = {} THEN 0
    ELSE LET x == CHOOSE y \in S : TRUE IN f[x] + SumOver(f, S \ {x})

\* wallet_trust is empty, so every trust multiplier is 1.0
raw_confidence(sg, t, mint) ==
    LET buys == BuysOf(sg, t, mint)
        n == Cardinality(buys)
        avg_score == SumOver([i \in buys |-> total_score[sg[i].wallet_address]], buys) \div n
        consensus_factor == Min((n * 1000) \div Max(consensus_threshold, 1), 2000)
        quality_factor == Min((avg_score * 1000) \div 70, 1500)
        individual_conf == SumOver([i \in buys |-> sg[i].confidence], buys) \div n
    IN (individual_conf * 3 + consensus_factor * 4 + quality_factor * 3 + 5) \div 10

FirstBuy(sg, t, mint) ==
    CHOOSE i \in BuysOf(sg, t, mint) :
        \A j \in BuysOf(sg, t, mint) \ {i} : ScanBefore(sg, i, j)

\* sort by raw_confidence descending, ties in insertion order
OppBefore(sg, t, m1, m2) ==
    \/ raw_confidence(sg, t, m1) > raw_confidence(sg, t, m2)
    \/ /\ raw_confidence(sg, t, m1) = raw_confidence(sg, t, m2)
       /\ ScanBefore(sg, FirstBuy(sg, t, m1), FirstBuy(sg, t, m2))

RECURSIVE SortOpps(_, _, _)
SortOpps(sg, t, S) ==
    IF S = {} THEN << >>
    ELSE LET m == CHOOSE x \in S : \A o \in S \ {x} : OppBefore(sg, t, x, o)
         IN << m >> \o SortOpps(sg, t, S \ {m})

aggregate_signals(sg, t) ==
    SortOpps(sg, t, {m \in {sg[i].token_mint : i \in ScannedIds(sg, t)} :
                        BuysOf(sg, t, m) # {}})

strategy_token_blacklist == {}

\* amount_sol of a buy decision, in 0.000001 SOL, rounded to 4 decimals of SOL
DecisionAmount(confidence) ==
    Min(((((default_position_size_sol * position_scale * (500 + confidence)) \div 10)
             + 50) \div 100) * 100,
        max_position_size_sol * 1000)

\* variant: the cooldown check is left out
CooldownActive_never(now_ts, last_decision_ts) == FALSE

\* Check 2 of make_decisions: the mint was decided on less than
\* cooldown_seconds ago
CooldownActive(now_ts, last_decision_ts) ==
    now_ts - last_decision_ts < cooldown_seconds

\* a row of the decision journal; executed and trade_id are the columns a
\* later learning cycle reads
JournalRow(mint, decision, confidence, reason, amount_sol, t) ==
    [token_mint |-> mint, decision |-> decision, confidence |-> confidence,
     reason |-> reason, amount_sol |-> amount_sol, executed |-> FALSE,
     trade_id |-> 0, created_at |-> t]

insert_agent_decision(jr, row) == Append(jr, row)

\* _log_decision for the rows of one cycle: without the table the insert
\* raises, the exception is logged and nothing is written
_log_decision(jr, rows) ==
    IF jr.present THEN [jr EXCEPT !.rows = @ \o rows] ELSE jr

\* what make_decisions adds to strategy["stats"] at the end of a cycle
StatsIncrease(opportunities, decisions) ==
    [total_decisions |-> Len(opportunities),
     total_buys |-> Len(decisions),
     total_skips |-> Len(opportunities) - Len(decisions)]

\* the pre-flight checks of make_decisions for one opportunity, in their
\* order: the decision and its reason
PreFlight(mint, confidence, acc, open_mints, daily_pnl, t) ==
    IF mint \in open_mints
    THEN [decision |-> "hold", reason |-> "already_holding"]
    ELSE IF CooldownActive(t, acc.recent_decisions[mint])
    THEN [decision |-> "skip", reason |-> "cooldown_active"]
    ELSE IF acc.position_count >= max_open_positions
    THEN [decision |-> "skip", reason |-> "max_positions_reached"]
    ELSE IF daily_pnl <= 0 - max_daily_loss_sol
    THEN [decision |-> "skip", reason |-> "daily_loss_limit"]
    ELSE IF mint \in strategy_token_blacklist
    THEN [decision |-> "skip", reason |-> "blacklisted_token"]
    ELSE IF confidence < min_confidence
    THEN [decision |-> "skip", reason |-> "low_confidence"]
    ELSE [decision |-> "buy", reason |-> "consensus"]

\* the loop of make_decisions from opportunity i on; acc: decisions so far,
\* the cooldown map, the running position count and the journal rows that
\* _log_decision wrote
RECURSIVE DecideFrom(_, _, _, _, _, _, _)
DecideFrom(opps, i, acc, sg, open_mints, daily_pnl, t) ==
    IF i > Len(opps) THEN acc
    ELSE LET mint == opps[i]
             confidence == raw_confidence(sg, t, mint)
             verdict == PreFlight(mint, confidence, acc, open_mints, daily_pnl, t)
             amount_sol == IF verdict.decision = "buy" THEN DecisionAmount(confidence)
                           ELSE 0
             logged == insert_agent_decision(
                           acc.journal,
                           JournalRow(mint, verdict.decision, confidence,
                                      verdict.reason, amount_sol, t))
             acc0 == [acc EXCEPT !.journal = logged]
             acc1 == [decisions |-> Append(acc.decisions,
                                      [token_mint |-> mint, confidence |-> confidence,
                                       amount_sol |-> amount_sol]),
                      recent_decisions |-> [acc.recent_decisions EXCEPT ![mint] = t],
                      position_count |-> acc.position_count + 1,
                      journal |-> logged]
         IN IF verdict.decision # "buy"
            THEN DecideFrom(opps, i + 1, acc0, sg, open_mints, daily_pnl, t)
            ELSE IF Len(acc1.decisions) >= max_concurrent_decisions THEN acc1
            ELSE DecideFrom(opps, i + 1, acc1, sg, open_mints, daily_pnl, t)

make_decisions(opps, rd, tr, sg, pos, t) ==
    DecideFrom(opps, 1,
               [decisions |-> << >>, recent_decisions |-> rd,
                position_count |-> get_open_position_count(pos),
                journal |-> << >>],
               sg, {pos[i].token_mint : i \in OpenIds(pos)}, get_todays_pnl(tr, t), t)

----------------------------------------------------------------------------
(* Notification channel.  Only the full bot builds a notifier and a chat   *)
(* bot; in agent mode nothing is ever sent.                                *)

notifier_present(rmode) == rmode = "full_bot"

\* the channel after a component had the chance to send message
Sent(rmode, sends, message, last) ==
    IF notifier_present(rmode) /\ sends THEN message ELSE last

notify_startup(rmode) == Sent(rmode, TRUE, "startup", "")

----------------------------------------------------------------------------
(* Initial state: a fresh database, the kill switch off, the clock at the  *)
(* start of a day.                                                         *)

\* the walk over the chain history has not begun (the pipeline's
\* specifications take a wallet's new buy as an input of MonitorSignal)
MonitorIdle ==
    /\ chain = [w \in Wallets |-> << >>]
    /\ last_signatures = [w \in Wallets |-> 0]
    /\ batch = << >>
    /\ emitted = << >>
    /\ dedup_order = << >>
    /\ handler_failed = {}

(* Agent Brain: the learned strategy and its file.  min_confidence is in   *)
(* thousandths, position_scale and the trust values in hundredths, PnL in  *)
(* 0.001 SOL.                                                              *)

DEFAULT_STRATEGY ==
    [version |-> 1,
     min_confidence |-> 600,
     position_scale |-> 100,
     wallet_trust |-> << >>,
     token_blacklist |-> << >>,
     preferred_mcap_range |-> << 50000, 10000000 >>,
     learning_cycles |-> 0]

\* variant: the market-cap range is held as a tuple
StrategyTypes_tuple_range ==
    [version |-> "int", min_confidence |-> "float", position_scale |-> "float",
     wallet_trust |-> "dict", token_blacklist |-> "list",
     preferred_mcap_range |-> "tuple", learning_cycles |-> "int"]

\* the Python type of each value of the strategy dict
StrategyTypes ==
    [version |-> "int", min_confidence |-> "float", position_scale |-> "float",
     wallet_trust |-> "dict", token_blacklist |-> "list",
     preferred_mcap_range |-> "list", learning_cycles |-> "int"]

\* json.dump of one value: lists and tuples become arrays, dicts objects
JsonEncode(pytype, value) ==
    [t |-> CASE pytype \in {"list", "tuple"} -> "array"
             [] pytype = "dict" -> "object"
             [] pytype = "int" -> "integer"
             [] OTHER -> "real",
     v |-> value]

\* json.load of one value: [pytype, value]
JsonDecode(json) ==
    [pytype |-> CASE json.t = "array" -> "list"
                  [] json.t = "object" -> "dict"
                  [] json.t = "integer" -> "int"
                  [] OTHER -> "float",
     value |-> json.v]

\* json.dump(self.strategy): the document written to the file
Dump(strat, types) == [k \in DOMAIN strat |-> JsonEncode(types[k], strat[k])]

AbsentFile == [kind |-> "absent"]
\* a file that open(path, "w") has truncated and that is not yet written out
TruncatedFile == [kind |-> "truncated"]
CompleteFile(doc) == [kind |-> "complete", doc |-> doc]

\* _load_strategy: the file's document merged over the defaults, the defaults
\* when there is no file or json.load fails; values and their Python types
_load_strategy(file) ==
    IF file.kind = "complete"
    THEN [values |-> [k \in DOMAIN DEFAULT_STRATEGY \cup DOMAIN file.doc |->
                         IF k \in DOMAIN file.doc THEN JsonDecode(file.doc[k]).value
                         ELSE DEFAULT_STRATEGY[k]],
          types |-> [k \in DOMAIN DEFAULT_STRATEGY \cup DOMAIN file.doc |->
                         IF k \in DOMAIN file.doc THEN JsonDecode(file.doc[k]).pytype
                         ELSE StrategyTypes[k]]]
    ELSE [values |-> DEFAULT_STRATEGY, types |-> StrategyTypes]

RECURSIVE SumRealized(_)
SumRealized(ds) == IF ds = << >> THEN 0 ELSE Head(ds).pnl + SumRealized(Tail(ds))

Wins(ds) == Len(SelectSeq(ds, LAMBDA d : d.pnl > 0))

\* Analysis 1: the confidence threshold follows the low-confidence trades
LearnMinConfidence(old_conf, decisions) ==
    LET low_pnls == SelectSeq(decisions, LAMBDA d : d.confidence < 500)
    IN IF Len(low_pnls) >= 3 /\ SumRealized(low_pnls) < 0 THEN Min(old_conf + 50, 850)
       ELSE IF Len(low_pnls) >= 3 /\ SumRealized(low_pnls) > 0 THEN Max(old_conf - 30, 400)
       ELSE old_conf

\* Analysis 2: the trust of each wallet with two or more decisions
LearnTrust(trust, decisions) ==
    LET perf(addr) == SelectSeq(decisions, LAMBDA d : d.wallet = addr)
        current(addr) == IF addr \in DOMAIN trust THEN trust[addr] ELSE 100
        new_trust(addr) ==
            LET pnls == perf(addr)
            IN IF Wins(pnls) * 10 >= 6 * Len(pnls) /\ SumRealized(pnls) > 0
               THEN Min(current(addr) + 20, 300)
               ELSE IF Wins(pnls) * 10 < 3 * Len(pnls) \/ SumRealized(pnls) < (0 - 10) * Len(pnls)
                    THEN Max(current(addr) - 30, 10)
                    ELSE current(addr)
        changed == {addr \in Wallets :
                       Len(perf(addr)) >= 2 /\ new_trust(addr) # current(addr)}
    IN [addr \in DOMAIN trust \cup changed |->
           IF addr \in changed THEN new_trust(addr) ELSE trust[addr]]

\* Analysis 3: the position scale follows the overall result
LearnPositionScale(old_scale, decisions) ==
    IF decisions = << >> THEN old_scale
    ELSE IF Wins(decisions) * 100 >= 55 * Len(decisions) /\ SumRealized(decisions) > 0
         THEN Min(old_scale + 10, 250)
         ELSE IF Wins(decisions) * 10 < 4 * Len(decisions) \/ SumRealized(decisions) < 0
              THEN Max(old_scale - 15, 30)
              ELSE old_scale

\* Analysis 4: a mint that lost on two or more trades and never won
LearnBlacklist(blacklist, decisions) ==
    LET of(mint) == SelectSeq(decisions, LAMBDA d : d.mint = mint)
        listed(mint) == \E k \in 1..Len(blacklist) : blacklist[k] = mint
        lost(mint) == /\ Len(of(mint)) >= 2
                      /\ \A k \in 1..Len(of(mint)) : of(mint)[k].pnl < 0
    IN IF lost(1) /\ ~listed(1) THEN Append(blacklist, 1) ELSE blacklist

\* learn_from_journal on decisions: the strategy it leaves in memory
learn_from_journal(strat, decisions) ==
    IF Len(decisions) < 5 THEN strat
    ELSE [strat EXCEPT
             !.min_confidence = LearnMinConfidence(strat.min_confidence, decisions),
             !.wallet_trust = LearnTrust(strat.wallet_trust, decisions),
             !.position_scale = LearnPositionScale(strat.position_scale, decisions),
             !.token_blacklist = LearnBlacklist(strat.token_blacklist, decisions),
             !.learning_cycles = strat.learning_cycles + 1]

\* the Brain has its defaults in memory and no strategy file exists
StrategyIdle ==
    /\ strategy = DEFAULT_STRATEGY
    /\ strategy_file = AbsentFile
    /\ save_pc = "idle"
    /\ save_hist = [old |-> AbsentFile, new |-> AbsentFile]

----------------------------------------------------------------------------
\* no function is being applied on its own
NoCalc == [fn |-> "none"]

\* an address without a row in table wallets
NoRow == [present |-> FALSE, total_score |-> 0, is_monitored |-> FALSE]

\* the start and the shutdown of main() are not being followed
NoRun == [pc |-> "none", initialised |-> {}, closed |-> {}, exit |-> "none"]

\* the analyzer has written nothing
AppIdle ==
    /\ wallet_rows = [a \in Addresses |-> NoRow]
    /\ life = NoRun

\* models.py creates no table agent_decisions and db.py has no
\* insert_agent_decision
NoJournal == [present |-> FALSE, rows |-> << >>]

\* the decision journal of the Store's interface, still empty
EmptyJournal == [present |-> TRUE, rows |-> << >>]

\* no decision journal, no buy under way
BrainIdle ==
    /\ journal = NoJournal
    /\ buying = {}

SideIdle == calc = NoCalc /\ StrategyIdle /\ AppIdle /\ BrainIdle

\* the pipeline at rest: nothing stored, nothing in flight
PipeIdle ==
    /\ run_mode = "full_bot"
    /\ trading_mode = "alert_only"
    /\ trading_paused = FALSE
    /\ now = DayLen
    /\ signals = << >>
    /\ trades = << >>
    /\ positions = << >>
    /\ swaps = 0
    /\ recent_signals = {}
    /\ recent_buys = [m \in Mints |-> << >>]
    /\ mon_active = FALSE
    /\ pending = << >>
    /\ pm_queue = << >>
    /\ recent_decisions = [m \in Mints |-> 0]
    /\ brain_queue = << >>
    /\ tp_history = [once |-> {}, again |-> {}]
    /\ last_message = notify_startup(run_mode)

Init ==
    /\ MonitorIdle
    /\ SideIdle
    /\ run_mode \in {"full_bot", "agent"}
    /\ trading_mode \in {"live", "dry_run", "alert_only"}
    /\ trading_paused = FALSE
    /\ now = DayLen
    /\ signals = << >>
    /\ trades = << >>
    /\ positions = << >>
    /\ swaps = 0
    /\ recent_signals = {}
    /\ recent_buys = [m \in Mints |-> << >>]
    /\ mon_active = FALSE
    /\ pending = << >>
    /\ pm_queue = << >>
    /\ recent_decisions = [m \in Mints |-> 0]
    /\ brain_queue = << >>
    /\ tp_history = [once |-> {}, again |-> {}]
    /\ last_message = notify_startup(run_mode)

----------------------------------------------------------------------------
(* Operator: the /pause chat command toggles the kill switch.  The chat    *)
(* bot runs in full-bot mode only.                                         *)

_cmd_pause ==
    /\ UNCHANGED << monvars, sidevars >>
    /\ run_mode = "full_bot"
    /\ trading_paused' = ~trading_paused
    /\ last_message' = IF trading_paused' THEN "paused" ELSE "resumed"
    /\ UNCHANGED tp_history
    /\ UNCHANGED << run_mode, trading_mode, now, signals, trades, positions, swaps,
                    recent_signals, recent_buys, mon_active, pending, pm_queue,
                    recent_decisions, brain_queue >>

(* Time passes: the next day begins *)
AdvanceClock ==
    /\ UNCHANGED << monvars, sidevars >>
    /\ now + DayLen <= MaxClock
    /\ now' = now + DayLen
    /\ UNCHANGED << tp_history, last_message >>
    /\ UNCHANGED << run_mode, trading_mode, trading_paused, signals, trades, positions,
                    swaps, recent_signals, recent_buys, mon_active, pending, pm_queue,
                    recent_decisions, brain_queue >>

----------------------------------------------------------------------------
(* Wallet Monitor loop *)

\* top of the poll loop: a paused Monitor sleeps, otherwise it walks the wallets
MonitorPollStart ==
    /\ UNCHANGED << monvars, sidevars >>
    /\ ~mon_active
    /\ pending = << >>
    /\ ~trading_paused
    /\ mon_active' = TRUE
    /\ UNCHANGED << tp_history, last_message >>
    /\ UNCHANGED << run_mode, trading_mode, trading_paused, now, signals, trades,
                    positions, swaps, recent_signals, recent_buys, pending, pm_queue,
                    recent_decisions, brain_queue >>

MonitorPollEnd ==
    /\ UNCHANGED << monvars, sidevars >>
    /\ mon_active
    /\ pending = << >>
    /\ batch = << >>
    /\ mon_active' = FALSE
    /\ UNCHANGED << tp_history, last_message >>
    /\ UNCHANGED << run_mode, trading_mode, trading_paused, now, signals, trades,
                    positions, swaps, recent_signals, recent_buys, pending, pm_queue,
                    recent_decisions, brain_queue >>

\* a new buy of mint by wallet is found: _extract_buy_signal, _handle_signal up
\* to and including the callback's validate_signal
EmitSignal(wallet, mint, sol_spent, vin) ==
    /\ mon_active
    /\ pending = << >>
    /\ Len(signals) < MaxSignals
    /\ << wallet, mint >> \notin recent_signals
    /\ recent_signals' \in AfterDedupAdd(recent_signals, << wallet, mint >>)
    /\ LET confidence == _calculate_confidence(total_score[wallet], sol_spent)
           sg1 == insert_signal(signals,
                      SignalRow(wallet, mint, total_score[wallet], confidence, now))
           sig == SignalDict(Len(sg1), wallet, mint, total_score[wallet], confidence)
           v == validate_signal(sig, vin, trading_paused, trades, sg1, positions,
                                recent_buys, now)
       IN /\ signals' = v.signals
          /\ trading_paused' = v.paused
          /\ recent_buys' = v.recent_buys
          /\ pending' = IF v.should_trade THEN << v.enriched >> ELSE << >>
          /\ last_message' = Sent(run_mode, ~v.should_trade, "signal_skipped",
                                  last_message)
    /\ UNCHANGED tp_history
    /\ UNCHANGED << run_mode, trading_mode, now, trades, positions, swaps, mon_active,
                    pm_queue, recent_decisions, brain_queue >>

MonitorSignal(wallet, mint, sol_spent, vin) ==
    /\ EmitSignal(wallet, mint, sol_spent, vin)
    /\ UNCHANGED << monvars, sidevars >>

\* the callback hands the validated signal to the executor
ExecutorHandle(inp) ==
    /\ UNCHANGED << monvars, sidevars >>
    /\ pending # << >>
    /\ Len(trades) < MaxTrades
    /\ Len(positions) < MaxPositions
    /\ inp \in BuyInputsOf(trading_mode)
    /\ LET o == handle_signal(Head(pending), inp, trading_paused, trading_mode, trades,
                              signals, positions, swaps, now)
       IN /\ trades' = o.trades
          /\ signals' = o.signals
          /\ positions' = o.positions
          /\ trading_paused' = o.paused
          /\ swaps' = o.swaps
          /\ last_message' = Sent(run_mode, o.trade_id # 0, "buy", last_message)
    /\ pending' = << >>
    /\ UNCHANGED tp_history
    /\ UNCHANGED << run_mode, trading_mode, now, recent_signals, recent_buys, mon_active,
                    pm_queue, recent_decisions, brain_queue >>

----------------------------------------------------------------------------
(* Position Manager loop *)

\* top of the loop: a paused manager sleeps, otherwise it reads the open positions
PMTickStart ==
    /\ UNCHANGED << monvars, sidevars >>
    /\ pm_queue = << >>
    /\ ~trading_paused
    /\ get_open_positions(positions) # << >>
    /\ pm_queue' = get_open_positions(positions)
    /\ UNCHANGED << tp_history, last_message >>
    /\ UNCHANGED << run_mode, trading_mode, trading_paused, now, signals, trades,
                    positions, swaps, recent_signals, recent_buys, mon_active, pending,
                    recent_decisions, brain_queue >>

\* one iteration of _check_positions, on the next row of the tick
PMCheckPosition(current_price, inp) ==
    /\ UNCHANGED << monvars, sidevars >>
    /\ pm_queue # << >>
    /\ Len(trades) < MaxTrades
    /\ inp \in SellInputsOf(trading_mode)
    /\ current_price = 0 => inp = NoSellInput
    /\ LET position == Head(pm_queue)
           entry_price == position.entry_price_usd
           priced == current_price > 0 /\ entry_price > 0
           unrealized_pnl == (position.amount_sol_invested * (current_price - entry_price))
                                 \div entry_price
           pos1 == update_position_price(positions, position.id, current_price,
                                         unrealized_pnl)
           d == ExitDecision(position, current_price, now)
           o == execute_sell(position, d.pct, d.reason, inp, trading_paused, trading_mode,
                             trades, pos1, swaps, now)
           partial == o.done /\ d.pct < 100
           fired == {<< position.id, d.fired[k] >> : k \in 1..Len(d.fired)}
       IN IF ~priced
          THEN UNCHANGED << trades, positions, trading_paused, swaps, tp_history,
                            last_message >>
          ELSE IF d.reason = ""
          THEN /\ positions' = pos1
               /\ UNCHANGED << trades, trading_paused, swaps, tp_history, last_message >>
          ELSE /\ positions' = o.positions
               /\ last_message' = Sent(run_mode, o.done, "sell", last_message)
               /\ trades' = o.trades
               /\ trading_paused' = o.paused
               /\ swaps' = o.swaps
               /\ tp_history' =
                      IF partial
                      THEN [once |-> tp_history.once \cup fired,
                            again |-> tp_history.again \cup (tp_history.once \cap fired)]
                      ELSE tp_history
    /\ pm_queue' = Tail(pm_queue)
    /\ UNCHANGED << run_mode, trading_mode, now, signals, recent_signals, recent_buys,
                    mon_active, pending, recent_decisions, brain_queue >>

----------------------------------------------------------------------------
(* Agent loop (agent mode only) *)

\* run_cycle: scan, aggregate, decide
BrainCycle ==
    /\ UNCHANGED << monvars, othervars, buying >>
    /\ run_mode = "agent"
    /\ brain_queue = << >>
    /\ ScannedIds(signals, now) # {}
    /\ LET opportunities == aggregate_signals(signals, now)
           r == make_decisions(opportunities, recent_decisions,
                               trades, signals, positions, now)
       IN /\ journal.present => Len(journal.rows) + Len(opportunities) <= MaxJournal
          /\ brain_queue' = r.decisions
          /\ recent_decisions' = r.recent_decisions
          /\ journal' = _log_decision(journal, r.journal)
    /\ UNCHANGED << tp_history, last_message >>
    /\ UNCHANGED << run_mode, trading_mode, trading_paused, now, signals, trades,
                    positions, swaps, recent_signals, recent_buys, mon_active, pending,
                    pm_queue >>

\* the signal agent_loop builds from a buy decision
DecisionSignal(decision) ==
    [signal_id |-> 0, wallet_address |-> 0,
     token_mint |-> decision.token_mint, wallet_score |-> 50,
     confidence |-> decision.confidence, price_usd |-> 0,
     signal_source_type |-> "human", position_size_sol |-> 0]

\* agent_loop hands the next buy decision of the cycle to the executor
BrainExecute(inp) ==
    /\ UNCHANGED << monvars, othervars >>
    /\ UNCHANGED brainvars
    /\ brain_queue # << >>
    /\ Len(trades) < MaxTrades
    /\ Len(positions) < MaxPositions
    /\ inp \in BuyInputsOf(trading_mode)
    /\ LET sig == DecisionSignal(Head(brain_queue))
           o == handle_signal(sig, inp, trading_paused, trading_mode, trades, signals,
                              positions, swaps, now)
       IN /\ trades' = o.trades
          /\ signals' = o.signals
          /\ positions' = o.positions
          /\ trading_paused' = o.paused
          /\ swaps' = o.swaps
    /\ brain_queue' = Tail(brain_queue)
    /\ UNCHANGED << tp_history, last_message >>
    /\ UNCHANGED << run_mode, trading_mode, now, recent_signals, recent_buys, mon_active,
                    pending, pm_queue, recent_decisions >>

----------------------------------------------------------------------------

Next ==
    \/ _cmd_pause
    \/ AdvanceClock
    \/ MonitorPollStart
    \/ MonitorPollEnd
    \/ \E w \in Wallets, m \in Mints, s \in SolSpentInputs, vin \in ValidateInputs :
           MonitorSignal(w, m, s, vin)
    \/ \E inp \in BuyInputs : ExecutorHandle(inp)
    \/ PMTickStart
    \/ \E price \in PriceInputs, inp \in SellInputs : PMCheckPosition(price, inp)
    \/ BrainCycle
    \/ \E inp \in BuyInputs : BrainExecute(inp)

Spec == Init /\ [][Next]_vars

----------------------------------------------------------------------------
(* The process started on the database file an earlier run left behind.    *)
(* The rows are kept; the settings object (kill switch off, the trading    *)
(* mode of the command line) and every component's memory are built anew.  *)

EmptyStore ==
    [signals |-> << >>, trades |-> << >>, positions |-> << >>,
     recent_buys |-> [m \in Mints |-> << >>]]

\* the Store after an earlier run, in trading mode mode, copied a buy of
\* mint 1 by wallet at the start of the day with every lookup succeeding
AfterCopyBuy(store, wallet, mode) ==
    LET confidence == _calculate_confidence(total_score[wallet], 1000)
        sg1 == insert_signal(store.signals,
                   SignalRow(wallet, 1, total_score[wallet], confidence, DayLen))
        sig == SignalDict(Len(sg1), wallet, 1, total_score[wallet], confidence)
        v == validate_signal(sig,
                 [token_data |-> [has_data |-> TRUE, price_usd |-> 10,
                                  liquidity_usd |-> 20, market_cap_usd |-> 500],
                  is_honeypot |-> FALSE],
                 FALSE, store.trades, sg1, store.positions, store.recent_buys, DayLen)
        o == handle_signal(v.enriched,
                 [balance |-> 1000, quote_ok |-> TRUE, swap_ok |-> TRUE,
                  confirmed |-> TRUE, out_tokens |-> 100, sol_price |-> 100],
                 v.paused, mode, store.trades, v.signals, store.positions, 0, DayLen)
    IN [signals |-> o.signals, trades |-> o.trades, positions |-> o.positions,
        recent_buys |-> v.recent_buys]

\* the Store after the live run's Position Manager then saw position 1 at
\* price 5, its stop-loss, and sold it all in a swap that did not confirm
AfterStopLoss(store) ==
    LET position == store.positions[1]
        unrealized_pnl == (position.amount_sol_invested * (5 - position.entry_price_usd))
                              \div position.entry_price_usd
        o == execute_sell(position, 100, "stop_loss",
                 [quote_ok |-> TRUE, swap_ok |-> TRUE, confirmed |-> FALSE, sol_out |-> 5],
                 FALSE, "live", store.trades,
                 update_position_price(store.positions, 1, 5, unrealized_pnl), 0, DayLen)
    IN [store EXCEPT !.trades = o.trades, !.positions = o.positions]

\* the earlier run and the mode of the new one: a dry run that copied both
\* wallets and is started again; a live run that copied wallet 2, started
\* again to alert only; a live run that copied wallet 2 and sold at the
\* stop-loss, started again live
Restarts ==
    { [store |-> AfterCopyBuy(AfterCopyBuy(EmptyStore, 1, "dry_run"), 2, "dry_run"),
       mode |-> "dry_run"],
      [store |-> AfterCopyBuy(EmptyStore, 2, "live"), mode |-> "alert_only"],
      [store |-> AfterStopLoss(AfterCopyBuy(EmptyStore, 2, "live")), mode |-> "live"] }

InitRestart ==
    /\ MonitorIdle
    /\ SideIdle
    /\ run_mode \in {"full_bot", "agent"}
    /\ trading_paused = FALSE
    /\ now = DayLen
    /\ \E r \in Restarts :
           /\ trading_mode = r.mode
           /\ signals = r.store.signals
           /\ trades = r.store.trades
           /\ positions = r.store.positions
    /\ swaps = 0
    /\ recent_signals = {}
    /\ recent_buys = [m \in Mints |-> << >>]
    /\ mon_active = FALSE
    /\ pending = << >>
    /\ pm_queue = << >>
    /\ recent_decisions = [m \in Mints |-> 0]
    /\ brain_queue = << >>
    /\ tp_history = [once |-> {}, again |-> {}]
    /\ last_message = notify_startup(run_mode)

SpecRestart == InitRestart /\ [][Next]_vars

----------------------------------------------------------------------------
(* The Monitor's walk over a wallet's chain history (_check_wallet).  The   *)
(* wallets trade two mints, so one poll can find several new buys.          *)

ChainMints == {1, 2}
MaxChain == 3

\* getSignaturesForAddress is called with limit=10
SigLimit == 10

ChainTotal == Len(chain[1]) + Len(chain[2])

Reverse(seq) == [k \in 1..Len(seq) |-> seq[Len(seq) - k + 1]]

\* the RPC node answers newest first, at most limit signatures
get_signatures_for_address(ch, limit) ==
    [k \in 1..Min(Len(ch), limit) |-> Len(ch) - k + 1]

\* the signatures in front of the last one seen
RECURSIVE NewSigs(_, _)
NewSigs(signatures, last_sig) ==
    IF signatures = << >> \/ Head(signatures) = last_sig THEN << >>
    ELSE << Head(signatures) >> \o NewSigs(Tail(signatures), last_sig)

InitMonitor ==
    /\ MonitorIdle
    /\ SideIdle
    /\ run_mode = "full_bot"
    /\ trading_mode \in {"live", "dry_run"}
    /\ trading_paused = FALSE
    /\ now = DayLen
    /\ signals = << >>
    /\ trades = << >>
    /\ positions = << >>
    /\ swaps = 0
    /\ recent_signals = {}
    /\ recent_buys = [m \in ChainMints |-> << >>]
    /\ mon_active = FALSE
    /\ pending = << >>
    /\ pm_queue = << >>
    /\ recent_decisions = [m \in ChainMints |-> 0]
    /\ brain_queue = << >>
    /\ tp_history = [once |-> {}, again |-> {}]
    /\ last_message = notify_startup(run_mode)

\* a monitored wallet's transaction lands on chain
WalletTransacts(wallet, mint) ==
    /\ UNCHANGED sidevars
    /\ ChainTotal < MaxChain
    /\ chain' = [chain EXCEPT ![wallet] = Append(@, mint)]
    /\ UNCHANGED << last_signatures, batch, emitted >>
    /\ UNCHANGED << run_mode, trading_mode, trading_paused, now, signals, trades,
                    positions, swaps, recent_signals, recent_buys, mon_active, pending,
                    pm_queue, recent_decisions, brain_queue, tp_history, last_message >>

\* _check_wallet up to the loop over the parsed transactions; reversed: the
\* parse service answers in the reverse of the order of the request
_check_wallet(wallet, reversed) ==
    /\ UNCHANGED sidevars
    /\ mon_active
    /\ batch = << >>
    /\ pending = << >>
    /\ LET signatures == get_signatures_for_address(chain[wallet], SigLimit)
           new_sigs == NewSigs(signatures, last_signatures[wallet])
           parsed == IF reversed THEN Reverse(new_sigs) ELSE new_sigs
       IN /\ new_sigs # << >>
          /\ last_signatures' = [last_signatures EXCEPT ![wallet] = signatures[1]]
          /\ batch' = [k \in 1..Len(parsed) |-> [wallet |-> wallet, idx |-> parsed[k]]]
    /\ UNCHANGED << chain, emitted >>
    /\ UNCHANGED << run_mode, trading_mode, trading_paused, now, signals, trades,
                    positions, swaps, recent_signals, recent_buys, mon_active, pending,
                    pm_queue, recent_decisions, brain_queue, tp_history, last_message >>

\* one turn of the loop: _extract_buy_signal on the next parsed transaction
\* and, when it is a buy that the dedup set does not hold, _handle_signal
CheckWalletTx(sol_spent, vin) ==
    /\ UNCHANGED sidevars
    /\ batch # << >>
    /\ pending = << >>
    /\ batch' = Tail(batch)
    /\ LET tx == Head(batch)
           mint == chain[tx.wallet][tx.idx]
       IN IF mint = 0 \/ << tx.wallet, mint >> \in recent_signals
          THEN /\ UNCHANGED emitted
               /\ UNCHANGED << run_mode, trading_mode, trading_paused, now, signals,
                               trades, positions, swaps, recent_signals, recent_buys,
                               mon_active, pending, pm_queue, recent_decisions,
                               brain_queue, tp_history, last_message >>
          ELSE /\ EmitSignal(tx.wallet, mint, sol_spent, vin)
               /\ emitted' = Append(emitted, [wallet |-> tx.wallet, idx |-> tx.idx,
                                              poll |-> last_signatures[tx.wallet],
                                              signal_id |-> Len(signals')])
    /\ UNCHANGED << chain, last_signatures >>

\* variant: the exception leaves _handle_signal and reaches the handler of
\* the poll loop, which goes on to the next wallet
AfterHandlerError_escapes(rest) == << >>

\* _handle_signal catches what on_signal raises: the loop over the parsed
\* transactions goes on with the rest
AfterHandlerError(rest) == rest

\* a turn of the loop whose on_signal call raises before it changed anything:
\* the signal is persisted, the exception is logged
CheckWalletTxRaises(sol_spent) ==
    /\ batch # << >>
    /\ pending = << >>
    /\ mon_active
    /\ Len(signals) < MaxSignals
    /\ LET tx == Head(batch)
           mint == chain[tx.wallet][tx.idx]
           confidence == _calculate_confidence(total_score[tx.wallet], sol_spent)
       IN /\ mint # 0
          /\ << tx.wallet, mint >> \notin recent_signals
          /\ recent_signals' \in AfterDedupAdd(recent_signals, << tx.wallet, mint >>)
          /\ signals' = insert_signal(signals,
                 SignalRow(tx.wallet, mint, total_score[tx.wallet], confidence, now))
          /\ emitted' = Append(emitted, [wallet |-> tx.wallet, idx |-> tx.idx,
                                         poll |-> last_signatures[tx.wallet],
                                         signal_id |-> Len(signals')])
    /\ handler_failed' = handler_failed \cup {Len(signals')}
    /\ batch' = AfterHandlerError(Tail(batch))
    /\ UNCHANGED << chain, last_signatures, dedup_order, calc, stratvars, appvars, brainvars >>
    /\ UNCHANGED << run_mode, trading_mode, trading_paused, now, trades, positions,
                    swaps, recent_buys, mon_active, pending, pm_queue,
                    recent_decisions, brain_queue, tp_history, last_message >>

\* on_signal raises after validate_signal returned, before handle_signal
\* changed anything
HandlerRaises ==
    /\ pending # << >>
    /\ pending' = << >>
    /\ handler_failed' = handler_failed \cup {Head(pending).signal_id}
    /\ batch' = AfterHandlerError(batch)
    /\ UNCHANGED << chain, last_signatures, emitted, dedup_order, calc, stratvars, appvars, brainvars >>
    /\ UNCHANGED << run_mode, trading_mode, trading_paused, now, signals, trades,
                    positions, swaps, recent_signals, recent_buys, mon_active,
                    pm_queue, recent_decisions, brain_queue, tp_history, last_message >>

NextMonitor ==
    \/ MonitorPollStart
    \/ MonitorPollEnd
    \/ \E w \in Wallets, m \in ChainMints \cup {0} : WalletTransacts(w, m)
    \/ \E w \in Wallets, reversed \in BOOLEAN : _check_wallet(w, reversed)
    \/ \E s \in SolSpentInputs, vin \in ValidateInputs : CheckWalletTx(s, vin)
    \/ \E s \in SolSpentInputs : CheckWalletTxRaises(s)
    \/ HandlerRaises
    \/ \E inp \in BuyInputs : ExecutorHandle(inp)

SpecMonitor == InitMonitor /\ [][NextMonitor]_vars

----------------------------------------------------------------------------
(* The Monitor's dedup set on its own: buys of many (wallet, mint) pairs    *)
(* pass through _extract_buy_signal.                                        *)

DedupKeys == Wallets \X (1..3)

InitDedup ==
    /\ Init
    /\ run_mode = "full_bot"
    /\ trading_mode = "alert_only"

\* the keys of order that are still in the set
RECURSIVE KeepOrder(_, _)
KeepOrder(order, recent) ==
    IF order = << >> THEN << >>
    ELSE IF Head(order) \in recent
         THEN << Head(order) >> \o KeepOrder(Tail(order), recent)
         ELSE KeepOrder(Tail(order), recent)

\* _extract_buy_signal from the dedup check on, for a buy of key's mint by
\* key's wallet
ExtractBuySignal(key) ==
    /\ IF key \in recent_signals
       THEN UNCHANGED << recent_signals, dedup_order >>
       ELSE /\ recent_signals' \in AfterDedupAdd(recent_signals, key)
            /\ dedup_order' = KeepOrder(Append(dedup_order, key), recent_signals')
    /\ UNCHANGED << run_mode, trading_mode, trading_paused, now, signals, trades,
                    positions, swaps, recent_buys, mon_active, pending, pm_queue,
                    recent_decisions, brain_queue, tp_history, last_message >>
    /\ UNCHANGED << monvars, handler_failed, calc, stratvars, appvars, brainvars >>

NextDedup == \E key \in DedupKeys : ExtractBuySignal(key)

SpecDedup == InitDedup /\ [][NextDedup]_vars

----------------------------------------------------------------------------
(* _calculate_confidence on its own, for every score the scorer can give    *)
(* (0 to 100) and amounts spent around each of its thresholds.              *)

ScoreInputs == 0..100
SpentInputs == {0, 499, 500, 999, 1000, 4999, 5000, 100000}

InitConfidence ==
    /\ PipeIdle
    /\ MonitorIdle
    /\ StrategyIdle
    /\ AppIdle
    /\ BrainIdle
    /\ calc \in [fn : {"confidence"}, score : ScoreInputs, sol_spent : SpentInputs,
                 done : {FALSE}, confidence : {0}]

CalcConfidence ==
    /\ calc.fn = "confidence"
    /\ ~calc.done
    /\ calc' = [calc EXCEPT !.done = TRUE,
                            !.confidence = _calculate_confidence(calc.score,
                                                                 calc.sol_spent)]
    /\ UNCHANGED << pipevars, monvars, dedup_order, handler_failed, stratvars, appvars, brainvars >>

SpecConfidence == InitConfidence /\ [][CalcConfidence]_vars

----------------------------------------------------------------------------
(* The Brain's learning cycle and the strategy file.                        *)

MaxCycles == 2

\* rows of the journal query: the first nlow decisions were taken at low
\* confidence, the first nwin ended with a profit
JournalRows(n, nlow, nwin) ==
    [k \in 1..n |-> [confidence |-> IF k <= nlow THEN 400 ELSE 800,
                     pnl |-> IF k <= nwin THEN 20 ELSE 0 - 20,
                     wallet |-> IF k % 2 = 1 THEN 1 ELSE 2,
                     mint |-> 1]]

DecisionInputs ==
    {JournalRows(5, nlow, nwin) : nlow \in {0, 3, 5}, nwin \in {0, 2, 3, 5}}
        \cup {JournalRows(4, 4, 0)}

\* a document of an older version, without the keys added since
OlderDocument ==
    LET doc == Dump(DEFAULT_STRATEGY, StrategyTypes)
    IN [k \in DOMAIN doc \ {"position_scale", "preferred_mcap_range"} |-> doc[k]]

\* what agent_strategy.json can hold when the Brain is built: nothing, a
\* document an earlier run saved, one of an older version, or one whose
\* values were set by hand
StrategyFiles ==
    { AbsentFile,
      CompleteFile(Dump(DEFAULT_STRATEGY, StrategyTypes)),
      CompleteFile(OlderDocument),
      CompleteFile(Dump([DEFAULT_STRATEGY EXCEPT !.min_confidence = 900,
                                                 !.position_scale = 260,
                                                 !.wallet_trust = (2 :> 310)],
                        StrategyTypes)),
      CompleteFile(Dump([DEFAULT_STRATEGY EXCEPT !.min_confidence = 300,
                                                 !.position_scale = 20,
                                                 !.wallet_trust = (2 :> 5)],
                        StrategyTypes)) }

InitStrategy ==
    /\ PipeIdle
    /\ MonitorIdle
    /\ calc = NoCalc
    /\ AppIdle
    /\ BrainIdle
    /\ strategy_file \in StrategyFiles
    /\ strategy = _load_strategy(strategy_file).values
    /\ save_pc = "idle"
    /\ save_hist = [old |-> strategy_file, new |-> strategy_file]

\* learn_from_journal up to _save_strategy's open(path, "w"), which
\* truncates the file
Learn(decisions) ==
    /\ save_pc = "idle"
    /\ strategy.learning_cycles < MaxCycles
    /\ strategy' = learn_from_journal(strategy, decisions)
    /\ IF Len(decisions) < 5
       THEN UNCHANGED << strategy_file, save_pc, save_hist >>
       ELSE /\ strategy_file' = TruncatedFile
            /\ save_pc' = "writing"
            /\ save_hist' = [old |-> strategy_file,
                             new |-> CompleteFile(Dump(strategy', StrategyTypes))]
    /\ UNCHANGED << pipevars, monvars, dedup_order, handler_failed, calc, appvars, brainvars >>

\* json.dump has written the document and the file is closed
SaveClose ==
    /\ save_pc = "writing"
    /\ strategy_file' = save_hist.new
    /\ save_pc' = "idle"
    /\ UNCHANGED << strategy, save_hist >>
    /\ UNCHANGED << pipevars, monvars, dedup_order, handler_failed, calc, appvars, brainvars >>

\* the process dies and is started again: the Brain loads the file as it is
CrashAndRestart ==
    /\ strategy' = _load_strategy(strategy_file).values
    /\ save_pc' = "idle"
    /\ UNCHANGED << strategy_file, save_hist >>
    /\ UNCHANGED << pipevars, monvars, dedup_order, handler_failed, calc, appvars, brainvars >>

NextStrategy ==
    \/ \E decisions \in DecisionInputs : Learn(decisions)
    \/ SaveClose
    \/ CrashAndRestart

SpecStrategy == InitStrategy /\ [][NextStrategy]_vars

----------------------------------------------------------------------------
(* Analyzer: scoring with auto-selection (main.py --analyze) and cluster    *)
(* detection with side-wallet promotion (main.py --clusters) write the     *)
(* flag is_monitored of table wallets.  The model runs small caps.         *)

min_wallet_score == 30
max_monitored_wallets == 2
max_cluster_monitored == 1

\* total scores a wallet can be given
ScoreValues == {20, 60, 90}

\* db.upsert_wallet: INSERT .. ON CONFLICT(address) DO UPDATE SET every
\* column, is_monitored included
upsert_wallet(rows, address, score, monitored) ==
    [rows EXCEPT ![address] = [present |-> TRUE, total_score |-> score,
                               is_monitored |-> monitored]]

\* db.set_wallet_monitored: UPDATE wallets SET is_monitored = ? WHERE address = ?
set_wallet_monitored(rows, address, monitored) ==
    IF rows[address].present
    THEN [rows EXCEPT ![address].is_monitored = monitored]
    ELSE rows

\* db.get_monitored_wallets, as a set of addresses
get_monitored_wallets(rows) ==
    { a \in Addresses : rows[a].present /\ rows[a].is_monitored }

\* score_wallets: every candidate is upserted with its score and
\* is_monitored = False (_calculate_score)
RECURSIVE score_wallets(_, _, _)
score_wallets(rows, scores, todo) ==
    IF todo = {} THEN rows
    ELSE LET a == CHOOSE x \in todo : TRUE
         IN  score_wallets(upsert_wallet(rows, a, scores[a], FALSE), scores,
                           todo \ {a})

\* the orders scored_wallets.sort(key = total_score, reverse = True) can
\* leave the candidates in: ties keep the order of the finder's dict
SortedOrders(scores) ==
    LET n == Cardinality(DOMAIN scores)
    IN  { seq \in [1..n -> DOMAIN scores] :
            /\ \A i, j \in 1..n : i # j => seq[i] # seq[j]
            /\ \A i, j \in 1..n : i < j => scores[seq[i]] >= scores[seq[j]] }

\* auto_select_monitored_wallets: the loop over the sorted list, with its
\* two breaks; returns the rows and the list selected
RECURSIVE auto_select_monitored_wallets(_, _, _, _)
auto_select_monitored_wallets(rows, scored_wallets, scores, selected) ==
    IF scored_wallets = << >> THEN [rows |-> rows, selected |-> selected]
    ELSE IF scores[Head(scored_wallets)] < min_wallet_score
    THEN [rows |-> rows, selected |-> selected]
    ELSE IF Len(selected) >= max_monitored_wallets
    THEN [rows |-> rows, selected |-> selected]
    ELSE auto_select_monitored_wallets(
             upsert_wallet(rows, Head(scored_wallets),
                           scores[Head(scored_wallets)], TRUE),
             Tail(scored_wallets), scores,
             Append(selected, Head(scored_wallets)))

\* _promote_side_wallets: the first max_cluster_monitored side wallets of
\* the list sorted by confidence are set monitored
RECURSIVE _promote_side_wallets(_, _)
_promote_side_wallets(rows, side_wallets) ==
    IF side_wallets = << >> THEN rows
    ELSE _promote_side_wallets(set_wallet_monitored(rows, Head(side_wallets), TRUE),
                               Tail(side_wallets))

\* cluster detection saves the members: each is upserted with
\* is_monitored = False and no score (total_score defaults to 0)
RECURSIVE SaveMembers(_, _)
SaveMembers(rows, members) ==
    IF members = {} THEN rows
    ELSE LET a == CHOOSE x \in members : TRUE
         IN  SaveMembers(upsert_wallet(rows, a, 0, FALSE), members \ {a})

\* the candidates of one analysis run with their scores
ScoreInputs_wallets ==
    UNION { [S -> ScoreValues] : S \in (SUBSET Addresses) \ {{}} }

\* the side wallets of a cluster, best confidence first
SideWalletLists(members) ==
    UNION { { seq \in [1..n -> members] :
                \A i, j \in 1..n : i # j => seq[i] # seq[j] } :
            n \in 0..Cardinality(members) }

InitWallets ==
    /\ PipeIdle
    /\ MonitorIdle
    /\ calc = NoCalc
    /\ StrategyIdle
    /\ AppIdle
    /\ BrainIdle

\* main.py --analyze, steps 3 to 5: score, flag, auto-select among the
\* wallets that were not flagged
Analyze(scores, flagged, order) ==
    /\ LET scored == score_wallets(wallet_rows, scores, DOMAIN scores)
           clean  == SelectSeq(order, LAMBDA a : a \notin flagged)
       IN  wallet_rows' =
               auto_select_monitored_wallets(scored, clean, scores, << >>).rows
    /\ UNCHANGED << pipevars, monvars, dedup_order, handler_failed, calc,
                    stratvars, life, brainvars >>

\* main.py --clusters for one seed: the members are saved, then the best
\* side wallets are promoted
DetectCluster(members, side_wallets) ==
    /\ wallet_rows' =
           _promote_side_wallets(
               SaveMembers(wallet_rows, members),
               SubSeq(side_wallets, 1,
                      Min(max_cluster_monitored, Len(side_wallets))))
    /\ UNCHANGED << pipevars, monvars, dedup_order, handler_failed, calc,
                    stratvars, life, brainvars >>

NextWallets ==
    \/ \E scores \in ScoreInputs_wallets :
         \E flagged \in SUBSET (DOMAIN scores) :
           \E order \in SortedOrders(scores) : Analyze(scores, flagged, order)
    \/ \E members \in (SUBSET Addresses) \ {{}} :
         \E side_wallets \in SideWalletLists(members) :
           DetectCluster(members, side_wallets)

SpecWallets == InitWallets /\ [][NextWallets]_vars

----------------------------------------------------------------------------
(* Life cycle of main() in its two run modes: the components are          *)
(* initialised one await after the other, the run loops are gathered, and  *)
(* the process leaves through the cleanup after the gather and the outer   *)
(* finally.  Only the components that have a close (or stop) are followed. *)

Components == {"db", "solana", "executor", "sig_gen", "pos_manager", "tg_bot"}

\* the order of the initialize() calls
StartOrder(rmode) ==
    << "db", "solana", "executor", "sig_gen", "pos_manager" >>
        \o (IF rmode = "full_bot" THEN << "tg_bot" >> ELSE << >>)

\* the closes that follow the gather, in their order
CleanupOrder(rmode) ==
    (IF rmode = "full_bot" THEN << "tg_bot" >> ELSE << >>)
        \o << "sig_gen", "executor", "pos_manager" >>

\* the closes of the outer finally
FinallyOrder == << "solana", "db" >>

\* the first component of a list that is not in a set
FirstNotIn(order, done) ==
    order[CHOOSE i \in 1..Len(order) :
            /\ order[i] \notin done
            /\ \A j \in 1..(i - 1) : order[j] \in done]

AllIn(order, done) == \A i \in 1..Len(order) : order[i] \in done

InitLifecycle ==
    /\ MonitorIdle
    /\ calc = NoCalc
    /\ StrategyIdle
    /\ wallet_rows = [a \in Addresses |-> NoRow]
    /\ BrainIdle
    /\ run_mode \in {"full_bot", "agent"}
    /\ trading_mode \in {"live", "dry_run", "alert_only"}
    /\ trading_paused = FALSE
    /\ now = DayLen
    /\ signals = << >>
    /\ trades = << >>
    /\ positions = << >>
    /\ swaps = 0
    /\ recent_signals = {}
    /\ recent_buys = [m \in Mints |-> << >>]
    /\ mon_active = FALSE
    /\ pending = << >>
    /\ pm_queue = << >>
    /\ recent_decisions = [m \in Mints |-> 0]
    /\ brain_queue = << >>
    /\ tp_history = [once |-> {}, again |-> {}]
    /\ last_message = ""
    /\ life = [pc |-> "init", initialised |-> {}, closed |-> {}, exit |-> "none"]

\* the state outside main()'s life cycle
lifeframe == << run_mode, trading_mode, trading_paused, now, signals, trades,
                positions, swaps, recent_signals, recent_buys, mon_active,
                pending, pm_queue, recent_decisions, brain_queue, tp_history,
                monvars, dedup_order, handler_failed, calc, stratvars,
                wallet_rows, brainvars >>

\* the next await x.initialize() returns; after the chain client come the
\* startup checks, after the last component the startup notification and
\* the gather of the run loops
Initialize ==
    /\ life.pc = "init"
    /\ LET c    == FirstNotIn(StartOrder(run_mode), life.initialised)
           up   == life.initialised \cup {c}
           last == AllIn(StartOrder(run_mode), up)
       IN  /\ life' = [life EXCEPT !.initialised = up,
                                   !.pc = IF c = "solana" THEN "checks"
                                          ELSE IF last THEN "running"
                                          ELSE "init"]
           /\ last_message' = IF last THEN notify_startup(run_mode)
                              ELSE last_message
    /\ UNCHANGED lifeframe

\* startup_checks; failed checks end a live process after closing the
\* chain client and the store
StartupChecks(checks_passed) ==
    /\ life.pc = "checks"
    /\ life' = IF ~checks_passed /\ trading_mode = "live"
               THEN [life EXCEPT !.closed = life.closed \cup {"solana", "db"},
                                 !.pc = "exited", !.exit = "startup_checks"]
               ELSE [life EXCEPT !.pc = "init"]
    /\ UNCHANGED << lifeframe, last_message >>

\* the initialize() of a component inside the outer try raises: control
\* goes to the outer except and finally
InitializeRaises ==
    /\ life.pc = "init"
    /\ FirstNotIn(StartOrder(run_mode), life.initialised) \notin {"db", "solana"}
    /\ life' = [life EXCEPT !.pc = "finally", !.exit = "startup_error"]
    /\ UNCHANGED << lifeframe, last_message >>

\* where control goes when the await on asyncio.gather ends: a return or a
\* CancelledError (caught, pass) falls through to the cleanup lines; any
\* other exception leaves the branch for the outer except and finally
AfterGather(how) == IF how \in {"return", "cancelled"} THEN "cleanup" ELSE "finally"

GatherEnds(how) ==
    /\ life.pc = "running"
    /\ life' = [life EXCEPT !.pc = AfterGather(how), !.exit = how]
    /\ UNCHANGED << lifeframe, last_message >>

\* the next await of the cleanup lines after the gather
Cleanup ==
    /\ life.pc = "cleanup"
    /\ LET c    == FirstNotIn(CleanupOrder(run_mode), life.closed)
           down == life.closed \cup {c}
       IN  life' = [life EXCEPT !.closed = down,
                                !.pc = IF AllIn(CleanupOrder(run_mode), down)
                                       THEN "finally" ELSE "cleanup"]
    /\ UNCHANGED << lifeframe, last_message >>

\* the next await of the outer finally
Finally ==
    /\ life.pc = "finally"
    /\ LET c    == FirstNotIn(FinallyOrder, life.closed)
           down == life.closed \cup {c}
       IN  life' = [life EXCEPT !.closed = down,
                                !.pc = IF AllIn(FinallyOrder, down)
                                       THEN "exited" ELSE "finally"]
    /\ UNCHANGED << lifeframe, last_message >>

NextLifecycle ==
    \/ Initialize
    \/ \E checks_passed \in BOOLEAN : StartupChecks(checks_passed)
    \/ InitializeRaises
    \/ \E how \in {"return", "cancelled", "exception"} : GatherEnds(how)
    \/ Cleanup
    \/ Finally

SpecLifecycle == InitLifecycle /\ [][NextLifecycle]_vars

----------------------------------------------------------------------------
(* Agent Brain on its own: one decision cycle over signals of two mints,   *)
(* and the execution of its buy decisions.                                 *)

BrainMints == {1, 2}

\* the signals tables the Monitor can have written in the scan window: at
\* most one row per wallet and mint (the Monitor's dedup)
ScannedTables ==
    LET keys == Wallets \X BrainMints
        row(k) == SignalRow(k[1], k[2], total_score[k[1]],
                            _calculate_confidence(total_score[k[1]], 1000), DayLen)
    IN  UNION { { [i \in 1..n |-> row(f[i])] :
                    f \in { g \in [1..n -> keys] :
                              \A i, j \in 1..n : i # j => g[i] # g[j] } } :
                n \in 1..MaxSignals }

InitBrain ==
    /\ MonitorIdle
    /\ calc = NoCalc
    /\ StrategyIdle
    /\ AppIdle
    /\ journal = EmptyJournal
    /\ buying = {}
    /\ run_mode = "agent"
    /\ trading_mode \in {"dry_run", "alert_only"}
    /\ trading_paused = FALSE
    /\ now = DayLen
    /\ signals \in ScannedTables
    /\ trades = << >>
    /\ positions = << >>
    /\ swaps = 0
    /\ recent_signals = {}
    /\ recent_buys = [m \in Mints |-> << >>]
    /\ mon_active = FALSE
    /\ pending = << >>
    /\ pm_queue = << >>
    /\ recent_decisions = [m \in BrainMints |-> 0]
    /\ brain_queue = << >>
    /\ tp_history = [once |-> {}, again |-> {}]
    /\ last_message = notify_startup(run_mode)

NextBrain ==
    \/ BrainCycle
    \/ \E inp \in BuyInputs : BrainExecute(inp)

SpecBrain == InitBrain /\ [][NextBrain]_vars

----------------------------------------------------------------------------
(* The Validator's gates on their own: validate_signal applied to one       *)
(* signal in every combination of the conditions its gates look at.        *)

\* the mints a signal can be for: one tradable, one on the blacklist
GateMints == {1, 3}

\* token data: none, good, illiquid, market cap too low, market cap too high
GateTokenData ==
    TokenDataInputs \cup
    { [has_data |-> TRUE, price_usd |-> 10, liquidity_usd |-> 20, market_cap_usd |-> 20],
      [has_data |-> TRUE, price_usd |-> 10, liquidity_usd |-> 20,
       market_cap_usd |-> 200000] }

\* positions tables: empty, one open position of the mint at the per-token
\* cap, one below it, and two open positions
GatePositions(mint) ==
    LET one(inv) == open_position(<< >>, mint, 10, inv, 100, << >>, 6, "human", DayLen)
    IN  { << >>, one(max_position_size_sol), one(default_position_size_sol),
          open_position(one(default_position_size_sol), mint, 10,
                        default_position_size_sol, 100, << >>, 6, "human", DayLen) }

\* trades tables: empty, and one whose PnL of today is at the loss limit
GateTrades ==
    { << >>,
      << TradeRow(1, "buy", max_daily_loss_sol, "confirmed", 0, "", DayLen) >> }

InitGates ==
    /\ PipeIdle
    /\ MonitorIdle
    /\ StrategyIdle
    /\ AppIdle
    /\ BrainIdle
    /\ \E mint \in GateMints :
         calc \in [fn : {"validate"}, mint : {mint}, paused : BOOLEAN,
                   pos : GatePositions(mint), tr : GateTrades,
                   token_data : GateTokenData, is_honeypot : BOOLEAN,
                   done : {FALSE}, verdict : {[reason |-> ""]}]

\* validate_signal on the signal the Monitor has just persisted
ApplyValidate ==
    /\ calc.fn = "validate"
    /\ ~calc.done
    /\ LET sg1 == insert_signal(<< >>, SignalRow(1, calc.mint, total_score[1], 740,
                                                 DayLen))
           sig == SignalDict(1, 1, calc.mint, total_score[1], 740)
           rb == [m \in GateMints |-> << >>]
       IN  calc' = [calc EXCEPT
                      !.done = TRUE,
                      !.verdict = validate_signal(
                                      sig, [token_data |-> calc.token_data,
                                            is_honeypot |-> calc.is_honeypot],
                                      calc.paused, calc.tr, sg1, calc.pos, rb, DayLen)]
    /\ UNCHANGED << pipevars, monvars, dedup_order, handler_failed, stratvars,
                    appvars, brainvars >>

SpecGates == InitGates /\ [][ApplyValidate]_vars

----------------------------------------------------------------------------
(* The position size of a live buy on its own: calculate_position_size     *)
(* applied to two confidences, the lower first, at the same balance.       *)

\* confidences in thousandths, on both sides of the two thresholds
SizeConfidences == {0, 500, 599, 600, 700, 799, 800, 950, 1000}

\* wallet balances in 0.001 SOL: half of it below and above the base size
SizeBalances == {1, 5, 16, 20, 1000}

InitSize ==
    /\ PipeIdle
    /\ MonitorIdle
    /\ StrategyIdle
    /\ AppIdle
    /\ BrainIdle
    /\ calc \in {c \in [fn : {"position_size"}, lower : SizeConfidences,
                        higher : SizeConfidences, balance : SizeBalances,
                        done : {FALSE}, size_lower : {0}, size_higher : {0}] :
                    c.lower <= c.higher}

CalcSize ==
    /\ calc.fn = "position_size"
    /\ ~calc.done
    /\ calc' = [calc EXCEPT
                  !.done = TRUE,
                  !.size_lower = calculate_position_size(calc.lower, calc.balance),
                  !.size_higher = calculate_position_size(calc.higher, calc.balance)]
    /\ UNCHANGED << pipevars, monvars, dedup_order, handler_failed, stratvars,
                    appvars, brainvars >>

SpecSize == InitSize /\ [][CalcSize]_vars

----------------------------------------------------------------------------
(* The Monitor and the wallets table: the poll loop reads the monitored     *)
(* wallets from the table at every poll, while main.py --add-wallet, run    *)
(* as another process, can flag a wallet at any time.                       *)

\* what each wallet did on chain before it was monitored: wallet 1 nothing,
\* wallet 2 one buy of mint 1
History == [w \in Wallets |-> IF w = 1 THEN << >> ELSE << 1 >>]

\* WalletMonitor.initialize: the newest signature of every wallet that is
\* monitored at start is the starting point (none for an empty history)
initialize(rows, ch) ==
    [w \in Wallets |->
        IF rows[w].is_monitored
        THEN LET sigs == get_signatures_for_address(ch[w], 1)
             IN  IF sigs # << >> THEN sigs[1] ELSE 0
        ELSE 0]

InitWatch ==
    /\ run_mode = "full_bot"
    /\ trading_mode \in {"live", "dry_run"}
    /\ trading_paused = FALSE
    /\ now = DayLen
    /\ signals = << >>
    /\ trades = << >>
    /\ positions = << >>
    /\ swaps = 0
    /\ recent_signals = {}
    /\ recent_buys = [m \in ChainMints |-> << >>]
    /\ mon_active = FALSE
    /\ pending = << >>
    /\ pm_queue = << >>
    /\ recent_decisions = [m \in ChainMints |-> 0]
    /\ brain_queue = << >>
    /\ tp_history = [once |-> {}, again |-> {}]
    /\ last_message = notify_startup(run_mode)
    /\ chain = History
    /\ \E late \in BOOLEAN :
         wallet_rows =
             [a \in Addresses |->
                 IF a = 1 \/ (a = 2 /\ ~late)
                 THEN [present |-> TRUE, total_score |-> total_score[a],
                       is_monitored |-> TRUE]
                 ELSE NoRow]
    /\ last_signatures = initialize(wallet_rows, chain)
    /\ batch = << >>
    /\ emitted = << >>
    /\ dedup_order = << >>
    /\ handler_failed = {}
    /\ calc = NoCalc
    /\ StrategyIdle
    /\ life = NoRun
    /\ BrainIdle

\* main.py --add-wallet: the wallet is upserted with is_monitored = True and
\* the baseline score
AddWallet(wallet) ==
    /\ ~wallet_rows[wallet].is_monitored
    /\ wallet_rows' = upsert_wallet(wallet_rows, wallet, 50, TRUE)
    /\ UNCHANGED << pipevars, monvars, dedup_order, handler_failed, calc,
                    stratvars, life, brainvars >>

\* a transaction of a wallet the bot is monitoring
MonitoredWalletTransacts(wallet, mint) ==
    /\ wallet_rows[wallet].is_monitored
    /\ WalletTransacts(wallet, mint)

\* the poll loop calls _check_wallet for the rows of get_monitored_wallets
CheckMonitoredWallet(wallet, reversed) ==
    /\ wallet_rows[wallet].is_monitored
    /\ _check_wallet(wallet, reversed)

NextWatch ==
    \/ MonitorPollStart
    \/ MonitorPollEnd
    \/ \E w \in Wallets : AddWallet(w)
    \/ \E w \in Wallets, m \in ChainMints \cup {0} : MonitoredWalletTransacts(w, m)
    \/ \E w \in Wallets, reversed \in BOOLEAN : CheckMonitoredWallet(w, reversed)
    \/ \E s \in SolSpentInputs, vin \in ValidateInputs : CheckWalletTx(s, vin)
    \/ \E inp \in BuyInputs : ExecutorHandle(inp)

SpecWatch == InitWatch /\ [][NextWatch]_vars

----------------------------------------------------------------------------
(* Agent mode, live, with two mints: the Monitor's signal handler, the     *)
(* Brain loop and the Position Manager take turns at their awaits.  A buy  *)
(* awaits its quote, swap and confirmation after pre_trade_check, so the   *)
(* buy of the other task can start in between.                             *)

RaceTasks == {"monitor", "brain"}

\* the signal the task's handle_signal call is working on
HasSignal(task) ==
    IF task = "monitor" THEN pending # << >> ELSE brain_queue # << >>

TaskSignal(task) ==
    IF task = "monitor" THEN Head(pending) ELSE DecisionSignal(Head(brain_queue))

\* the lookups of the Validator succeed and find nothing wrong
RaceValidateInputs ==
    {i \in ValidateInputs : i.token_data.has_data /\ ~i.is_honeypot
                             /\ i.token_data.liquidity_usd >= min_liquidity_usd}

\* the wallet is funded; the quote, the swap and the confirmation succeed
RaceBuyInputs ==
    {i \in BuyInputs : i.balance >= 20 /\ i.quote_ok /\ i.swap_ok /\ i.confirmed
                        /\ i.sol_price # 0}

\* the price feed: five times the entry price
RacePrices == {50}

InitRace ==
    /\ MonitorIdle
    /\ SideIdle
    /\ run_mode = "agent"
    /\ trading_mode = "live"
    /\ trading_paused = FALSE
    /\ now = DayLen
    /\ signals = << >>
    /\ trades = << >>
    /\ positions = << >>
    /\ swaps = 0
    /\ recent_signals = {}
    /\ recent_buys = [m \in BrainMints |-> << >>]
    /\ mon_active = FALSE
    /\ pending = << >>
    /\ pm_queue = << >>
    /\ recent_decisions = [m \in BrainMints |-> 0]
    /\ brain_queue = << >>
    /\ tp_history = [once |-> {}, again |-> {}]
    /\ last_message = notify_startup(run_mode)

\* the task's signal leaves its queue when handle_signal returns
Dequeue(task) ==
    IF task = "monitor"
    THEN pending' = << >> /\ UNCHANGED brain_queue
    ELSE brain_queue' = Tail(brain_queue) /\ UNCHANGED pending

\* _execute_buy up to the verdict of pre_trade_check: a blocked trade ends
\* the call, an allowed one goes on to the quote
PreTradeCheck(task, inp) ==
    /\ HasSignal(task)
    /\ task \notin buying
    /\ LET sig == TaskSignal(task)
           chk == pre_trade_check(sig.token_mint, inp.balance, trading_paused,
                                  trading_mode, trades, positions, now)
           o == BuyBlocked(sig, chk, trades, signals, positions, swaps)
       IN /\ trading_paused' = chk.paused
          /\ IF chk.allow
             THEN /\ buying' = buying \cup {task}
                  /\ UNCHANGED << signals, pending, brain_queue >>
             ELSE /\ signals' = o.signals
                  /\ Dequeue(task)
                  /\ UNCHANGED buying
    /\ UNCHANGED << run_mode, trading_mode, now, trades, positions, swaps,
                    recent_signals, recent_buys, mon_active, pm_queue,
                    recent_decisions, tp_history, last_message >>
    /\ UNCHANGED << monvars, othervars, journal >>

\* the rest of _execute_buy: quote, swap, confirmation, trade row, position
CompleteBuy(task, inp) ==
    /\ task \in buying
    /\ Len(trades) < MaxTrades
    /\ Len(positions) < MaxPositions
    /\ LET o == BuyAfterCheck(TaskSignal(task), inp, trading_paused, trading_mode,
                              trades, signals, positions, swaps, now)
       IN /\ trades' = o.trades
          /\ signals' = o.signals
          /\ positions' = o.positions
          /\ trading_paused' = o.paused
          /\ swaps' = o.swaps
          /\ last_message' = IF task = "monitor"
                             THEN Sent(run_mode, o.trade_id # 0, "buy", last_message)
                             ELSE last_message
    /\ Dequeue(task)
    /\ buying' = buying \ {task}
    /\ UNCHANGED << run_mode, trading_mode, now, recent_signals, recent_buys,
                    mon_active, pm_queue, recent_decisions, tp_history >>
    /\ UNCHANGED << monvars, othervars, journal >>

NextRace ==
    \/ MonitorPollStart
    \/ MonitorPollEnd
    \/ \E w \in Wallets, m \in BrainMints, s \in SolSpentInputs,
          vin \in RaceValidateInputs :
           MonitorSignal(w, m, s, vin)
    \/ \E task \in RaceTasks, inp \in RaceBuyInputs : PreTradeCheck(task, inp)
    \/ \E task \in RaceTasks, inp \in RaceBuyInputs : CompleteBuy(task, inp)
    \/ PMTickStart
    \/ \E price \in RacePrices, inp \in SellInputs : PMCheckPosition(price, inp)
    \/ BrainCycle

SpecRace == InitRace /\ [][NextRace]_vars

----------------------------------------------------------------------------
(* Properties of the pipeline *)

OpenOf(mint) == {i \in OpenIds(positions) : positions[i].token_mint = mint}

\* C1: for every mint, in every reachable state at most one position of the
\* mint has status open, whatever mix of live, dry-run and Brain buys ran.
C1_OneOpenPositionPerMint ==
    \A m \in Mints : Cardinality(OpenOf(m)) <= 1

\* today's PnL is at or below minus the daily loss limit
BreachToday(tr, t) == get_todays_pnl(tr, t) <= 0 - max_daily_loss_sol

\* the step is a handle_signal call of the callback or of the agent loop
HandleSignalStep ==
    \/ pending # << >> /\ pending' = << >>
    \/ brain_queue # << >> /\ brain_queue' = Tail(brain_queue)

\* the step runs post_trade_check: a swap was submitted and its trade recorded
PostCheckStep == swaps' # swaps

\* the step runs the Validator up to its daily-loss gate
ValidatorGateStep ==
    /\ Len(signals') > Len(signals)
    /\ ~trading_paused
    /\ get_open_position_count(positions) < max_open_positions

C3_PausedMeansNoTrading ==
    [][ trading_paused =>
            /\ trades' = trades
            /\ swaps' = swaps
            /\ Len(positions') = Len(positions)
            /\ \A i \in 1..Len(positions) : positions'[i].status = positions[i].status
      ]_vars

\* C4: an engaged kill switch stays engaged through every Monitor, Validator,
\* Executor, Position Manager and Brain step; the only step that resets it is
\* the operator's pause command.
C4_OnlyOperatorResets ==
    [][ trading_paused /\ ~trading_paused' => _cmd_pause ]_vars

\* without an operator: a check engaged the switch, and it is still engaged
\* after later steps have brought today's PnL back above the limit
C4_Witness ==
    /\ run_mode = "agent"
    /\ trading_paused
    /\ ~BreachToday(trades, now)
    /\ trades # << >>

\* C5: every signal marked executed is linked to an existing trade row whose
\* status is confirmed or dry_run.
C5_ExecutedLinksConfirmedOrDryRun ==
    \A i \in 1..Len(signals) :
        signals[i].executed =>
            /\ signals[i].trade_id \in 1..Len(trades)
            /\ trades[signals[i].trade_id].status \in {"confirmed", "dry_run"}

\* C5 (amended): every signal marked executed is linked to an existing trade
\* row of that signal whose status is confirmed, unconfirmed or dry_run: a
\* submitted buy marks its signal executed whether or not it confirms.
C5_ExecutedLinksSubmittedTrade ==
    \A i \in 1..Len(signals) :
        signals[i].executed =>
            /\ signals[i].trade_id \in 1..Len(trades)
            /\ trades[signals[i].trade_id].signal_id = i
            /\ trades[signals[i].trade_id].side = "buy"
            /\ trades[signals[i].trade_id].status
                   \in {"confirmed", "unconfirmed", "dry_run"}

\* an executed signal whose buy did not confirm
C5_Witness ==
    \E i \in 1..Len(signals) :
        /\ signals[i].executed
        /\ signals[i].trade_id \in 1..Len(trades)
        /\ trades[signals[i].trade_id].status = "unconfirmed"

\* C6: after a take-profit level has triggered a partial sell for a position,
\* no later check of the Position Manager sells on that level again for that
\* position (the level is hit).
C6_LevelFiresOnce == tp_history.again = {}

\* C7: one check of a position by the Position Manager triggers at most one
\* take-profit level, for every open position and every price it may see.
C7_OneLevelPerCheck ==
    \A i \in OpenIds(positions), price \in PriceInputs :
        Len(ExitDecision(positions[i], price, now).fired) <= 1

\* levels of the stored ladder that the position's current price has reached
ReachedLevels(p) ==
    {k \in 1..Len(p.take_profit_levels) :
        /\ ~p.take_profit_levels[k].hit
        /\ p.current_price_usd * 10 >= p.take_profit_levels[k].multiplier * p.entry_price_usd}

\* a partial sell ran at a price that had reached two levels of the ladder,
\* and at that price the check fires one level
C7_Witness ==
    \E i \in OpenIds(positions) :
        /\ << i, 1 >> \in tp_history.once
        /\ Cardinality(ReachedLevels(positions[i])) >= 2
        /\ Len(ExitDecision(positions[i], positions[i].current_price_usd, now).fired) = 1

\* C8: in a live run, for every closed position realized_pnl equals the sum
\* of the proceeds of all its sells, partial and final, minus the amount
\* invested, to within one unit (0.001 SOL).
C8_RealizedPnlCountsAllSells ==
    trading_mode = "live" =>
        \A i \in 1..Len(positions) :
            positions[i].status = "closed" =>
                LET d == positions[i].realized_pnl_sol
                             - (positions[i].sold_native - positions[i].amount_sol_invested)
                IN d \in {0 - 1, 0, 1}

\* the step is a check of the Position Manager whose sell confirmed on chain
SellStep ==
    /\ pm_queue # << >>
    /\ pm_queue' = Tail(pm_queue)
    /\ Len(trades') = Len(trades) + 1
    /\ trades'[Len(trades')].status = "confirmed"

\* C9: after a successful partial sell the position stays open and its stored
\* amount_tokens_held is the amount held before minus the tokens sold.
C9_PartialSellReducesHolding ==
    [][ SellStep =>
          LET id == Head(pm_queue).id
              pct == ExitDecision(Head(pm_queue), positions'[id].current_price_usd, now).pct
              sold == (positions[id].amount_tokens_held * pct) \div 100
          IN pct < 100 =>
                 /\ positions'[id].status = "open"
                 /\ positions'[id].amount_tokens_held
                        = positions[id].amount_tokens_held - sold ]_vars

----------------------------------------------------------------------------
(* The Store's position operations on their own: any caller, any row *)

CloseReasonInputs == {"stop_loss", "take_profit"}
RealizedPnlInputs == {0 - 5, 20}

StoreOpen(mint) ==
    /\ UNCHANGED << monvars, sidevars >>
    /\ Len(positions) < MaxPositions
    /\ positions' = open_position(positions, mint, 10, default_position_size_sol, 100,
                                  SettingsLadder, 5, "human", now)
    /\ UNCHANGED << run_mode, trading_mode, trading_paused, now, signals, trades, swaps,
                    recent_signals, recent_buys, mon_active, pending, pm_queue,
                    recent_decisions, brain_queue, tp_history, last_message >>

StoreClose(position_id, reason, realized_pnl) ==
    /\ UNCHANGED << monvars, sidevars >>
    /\ position_id \in 1..Len(positions)
    /\ positions' = close_position(positions, position_id, reason, realized_pnl, now)
    /\ UNCHANGED << run_mode, trading_mode, trading_paused, now, signals, trades, swaps,
                    recent_signals, recent_buys, mon_active, pending, pm_queue,
                    recent_decisions, brain_queue, tp_history, last_message >>

StoreNext ==
    \/ \E m \in Mints : StoreOpen(m)
    \/ \E id \in 1..MaxPositions, r \in CloseReasonInputs, pnl \in RealizedPnlInputs :
           StoreClose(id, r, pnl)
    \/ AdvanceClock

SpecStore == Init /\ [][StoreNext]_vars

\* C10: closing a position that is already closed changes nothing: status,
\* close reason, realized PnL and close time stay as the first close left
\* them, and the position is never reopened.
C10_CloseClosedIsNoOp ==
    [][ \A i \in 1..Len(positions) :
            positions[i].status = "closed" =>
                /\ positions'[i].status = "closed"
                /\ positions'[i].close_reason = positions[i].close_reason
                /\ positions'[i].realized_pnl_sol = positions[i].realized_pnl_sol
                /\ positions'[i].closed_at = positions[i].closed_at ]_vars

\* C11: in dry_run and alert_only modes no step submits a swap on chain, be
\* it a buy or a sell of a position an earlier run left open; in alert_only
\* mode a handle_signal call inserts no trade row and opens no position.
C11_NoSwapOutsideLive ==
    [][ /\ trading_mode \in {"dry_run", "alert_only"} => swaps' = swaps
        /\ trading_mode = "alert_only" /\ HandleSignalStep
               => trades' = trades /\ positions' = positions ]_vars

\* alert only: a new signal went through handle_signal, and the Position
\* Manager took the stop-loss exit of a position the live run left open
C11_Witness ==
    /\ trading_mode = "alert_only"
    /\ pending = << >>
    /\ \E i \in 1..Len(signals) :
           /\ i > 1
           /\ ~signals[i].executed
           /\ signals[i].skip_reason = ""
    /\ \E i \in OpenIds(positions) :
           /\ pm_queue = << >>
           /\ positions[i].current_price_usd > 0
           /\ ExitDecision(positions[i], positions[i].current_price_usd, now).reason
                  = "stop_loss"

\* the callback has finished with signal i
Handled(i) == pending = << >> \/ Head(pending).signal_id # i

\* C12: every signal the Monitor persisted is resolved once its handling is
\* complete: it is marked executed or it carries a skip reason, whichever
\* gate or trading mode declined it.
C12_EverySignalResolved ==
    \A i \in 1..Len(signals) :
        Handled(i) => signals[i].executed \/ signals[i].skip_reason # ""

\* the quote or the swap submission of the attempt fails
AttemptFails(inp) == ~inp.quote_ok \/ ~inp.swap_ok

FailedBuyInputs == {inp \in BuyInputs : AttemptFails(inp)}

FailedSellInputs == {inp \in SellInputs : AttemptFails(inp)}

\* no row of positions is added, and none changes beyond the price the
\* Position Manager's check wrote before it called execute_sell
PositionsKept ==
    /\ Len(positions') = Len(positions)
    /\ \A i \in 1..Len(positions) :
           [positions'[i] EXCEPT !.current_price_usd = positions[i].current_price_usd,
                                 !.unrealized_pnl_sol = positions[i].unrealized_pnl_sol]
               = positions[i]

\* C13: a buy or a sell whose quote or swap submission fails opens no
\* position, closes none and changes none.
C13_FailedAttemptKeepsPositions ==
    [][ /\ HandleSignalStep =>
               \A inp \in FailedBuyInputs :
                   ExecutorHandle(inp) \/ BrainExecute(inp) => positions' = positions
        /\ pm_queue' # pm_queue =>
               \A price \in PriceInputs, inp \in FailedSellInputs :
                   PMCheckPosition(price, inp) => PositionsKept ]_vars

\* live: a buy failed (it left a failed trade row), and a position whose
\* price the Position Manager saw at the stop-loss is open after the check,
\* so the sell of that check failed
C13_Witness ==
    /\ trading_mode = "live"
    /\ \E k \in 1..Len(trades) : trades[k].side = "buy" /\ trades[k].status = "failed"
    /\ \E i \in OpenIds(positions) :
           /\ positions[i].current_price_usd > 0
           /\ positions[i].amount_tokens_held > 0
           /\ ExitDecision(positions[i], positions[i].current_price_usd, now).reason
                  = "stop_loss"

\* the step appends a failed trade row that carries an error message
FailedRowAdded ==
    /\ Len(trades') = Len(trades) + 1
    /\ trades'[Len(trades')].status = "failed"
    /\ trades'[Len(trades')].error_message # ""

\* the live buy of the signal gets past pre_trade_check and asks for a quote
BuyAttempted(sig, inp) ==
    /\ trading_mode = "live"
    /\ pre_trade_check(sig.token_mint, inp.balance, trading_paused, trading_mode, trades,
                       positions, now).allow

\* the check of the next position of the tick at this price calls execute_sell,
\* which has tokens to sell and asks for a quote
SellAttempted(price) ==
    LET position == Head(pm_queue)
        d == ExitDecision(position, price, now)
    IN /\ trading_mode # "dry_run"
       /\ price > 0
       /\ position.entry_price_usd > 0
       /\ d.reason # ""
       /\ (position.amount_tokens_held * d.pct) \div 100 > 0

\* C14: every buy and every sell attempt whose quote or swap submission fails
\* leaves a trade row with status failed and an error message.
C14_FailedAttemptLeavesFailedTrade ==
    [][ /\ pending # << >> /\ pending' = << >> =>
               \A inp \in FailedBuyInputs :
                   ExecutorHandle(inp) /\ BuyAttempted(Head(pending), inp) => FailedRowAdded
        /\ brain_queue # << >> /\ brain_queue' # brain_queue =>
               \A inp \in FailedBuyInputs :
                   BrainExecute(inp) /\ BuyAttempted(Head(brain_queue), inp)
                       => FailedRowAdded
        /\ pm_queue # << >> /\ pm_queue' # pm_queue =>
               \A price \in PriceInputs, inp \in FailedSellInputs :
                   PMCheckPosition(price, inp) /\ SellAttempted(price) => FailedRowAdded ]_vars

\* C15: when pre_trade_check denies a live buy, the signal is marked skipped
\* with the reason of the denial and a failed trade row is inserted.
C15_DeniedBuyIsSkippedAndRecorded ==
    [][ pending # << >> /\ pending' = << >> /\ trading_mode = "live" =>
            \A inp \in BuyInputs :
                LET sig == Head(pending)
                    chk == pre_trade_check(sig.token_mint, inp.balance, trading_paused,
                                           trading_mode, trades, positions, now)
                IN ExecutorHandle(inp) /\ ~chk.allow
                       => /\ signals'[sig.signal_id].skip_reason = chk.reason
                          /\ FailedRowAdded ]_vars

\* C16: every engagement of the kill switch, a step that takes it from off
\* to on, sends the announcement that trading is paused to the
\* notification channel, whichever component engaged it.
C16_EngagementAnnounced ==
    [][ ~trading_paused /\ trading_paused' => last_message' = "paused" ]_vars

\* the Brain's cycle takes an opportunity as far as its daily-loss gate: the
\* mint is not held, not cooling down and the position cap is not reached
BrainReachesLossGate ==
    \E i \in 1..Len(aggregate_signals(signals, now)) :
        LET mint == aggregate_signals(signals, now)[i]
        IN /\ mint \notin {positions[k].token_mint : k \in OpenIds(positions)}
           /\ now - recent_decisions[mint] >= cooldown_seconds
           /\ get_open_position_count(positions) < max_open_positions

\* C17: when today's PnL is at or below minus the daily loss limit and a
\* buy signal is handled, the kill switch is on once the component that
\* observes the breach is done: the Validator at its daily-loss gate,
\* pre_trade_check in a live buy, the Brain in its cycle.  A cycle of the
\* Brain that skips writes its journal only and leaves the switch as it
\* found it, so the switch has to be on whenever such a cycle can run.
C17_BreachEngagesSwitch ==
    [][ BreachToday(trades, now) =>
            /\ ValidatorGateStep => trading_paused'
            /\ HandleSignalStep /\ trading_mode = "live" => trading_paused'
            /\ (ENABLED BrainCycle) /\ BrainReachesLossGate => trading_paused ]_vars

\* exactly max_open_positions positions are open
AtPositionCap == Cardinality(OpenIds(positions)) = max_open_positions

TwoWalletsInWindow(rb, mint, t) ==
    \E i, j \in 1..Len(rb[mint]) :
        /\ rb[mint][i][1] # rb[mint][j][1]
        /\ t - rb[mint][i][2] <= consensus_window_seconds
        /\ t - rb[mint][j][2] <= consensus_window_seconds

\* C19: when two distinct monitored wallets have validated buys of the same
\* mint within the consensus window, the second signal leaves the Validator
\* with source type consensus and a position size of base x
\* consensus_multiplier capped at max_position_size.
C19_ConsensusSizeCapped ==
    [][ /\ Len(signals') > Len(signals)
        /\ pending' # << >>
        /\ TwoWalletsInWindow(recent_buys', pending'[1].token_mint, now)
        => /\ pending'[1].signal_source_type = "consensus"
           /\ pending'[1].position_size_sol =
                  Min((default_position_size_sol * consensus_position_multiplier) \div 10,
                      max_position_size_sol)
      ]_vars

\* C20: within a single wallet, the Monitor emits signals in chain order:
\* of two signals that one poll of a wallet persisted, the one persisted
\* (and handled) first belongs to the older transaction.
C20_ChainOrder ==
    \A i, j \in 1..Len(emitted) :
        /\ i < j
        /\ emitted[i].wallet = emitted[j].wallet
        /\ emitted[i].poll = emitted[j].poll
        => emitted[i].idx < emitted[j].idx

\* the newest n keys of the insertion order
Newest(order, n) == {order[k] : k \in (Len(order) - n + 1)..Len(order)}

\* C21: after an extraction the dedup set holds at most the cap of keys, an
\* overflow drops the oldest half (the newest keys stay), and the pair just
\* emitted is in the set, so that the next cycle does not emit it again,
\* also when its insertion caused the overflow.
C21_DedupBounded ==
    [][ \A key \in DedupKeys :
            ExtractBuySignal(key) /\ key \notin recent_signals
            => /\ Cardinality(recent_signals') <= DedupCap
               /\ key \in recent_signals'
               /\ Cardinality(recent_signals) = DedupCap
                      => recent_signals' = Newest(Append(dedup_order, key), DedupKeep)
      ]_vars

\* the signals table holds a row of wallet's buy of mint
Persisted(wallet, mint) ==
    \E i \in 1..Len(signals) :
        signals[i].wallet_address = wallet /\ signals[i].token_mint = mint

\* C22: each signal is persisted before the handler is invoked (the signal
\* the handler is working on, and every pair the Monitor emitted, has its row,
\* also when the handler raised), and a handler's exception does not stop
\* the loop: every buy among the transactions a poll fetched is either
\* handled (its pair is in the dedup set) or still in the loop's batch, and
\* the loop can take its next turn.
C22_HandlerFailureIsolated ==
    /\ pending # << >> =>
           /\ Head(pending).signal_id \in 1..Len(signals)
           /\ Persisted(Head(pending).wallet_address, Head(pending).token_mint)
    /\ \A key \in recent_signals : Persisted(key[1], key[2])
    /\ \A i \in handler_failed : i \in 1..Len(signals)
    /\ \A w \in Wallets : \A idx \in 1..last_signatures[w] :
           chain[w][idx] # 0 =>
               \/ << w, chain[w][idx] >> \in recent_signals
               \/ \E k \in 1..Len(batch) : batch[k] = [wallet |-> w, idx |-> idx]
    /\ batch # << >> /\ pending = << >> =>
           ENABLED (\E s \in SolSpentInputs, vin \in ValidateInputs : CheckWalletTx(s, vin))

\* a handler call raised, and afterwards a later transaction of the same poll
\* and a transaction of the other wallet got their signals
C22_Witness ==
    \E f \in 1..Len(emitted) :
        /\ emitted[f].signal_id \in handler_failed
        /\ \E j, k \in 1..Len(emitted) :
               /\ f < j /\ f < k
               /\ emitted[j].wallet = emitted[f].wallet
               /\ emitted[j].poll = emitted[f].poll
               /\ emitted[k].wallet # emitted[f].wallet

\* C23: every confidence the Monitor emits lies in [0.5, 1.0], for every
\* wallet score and every amount spent.
C23_ConfidenceInRange ==
    calc.fn = "confidence" /\ calc.done
        => calc.confidence >= 500 /\ calc.confidence <= 1000

\* the upper end is met: the highest score with the largest bonus gives 1.0
C23_Witness ==
    /\ calc.fn = "confidence" /\ calc.done
    /\ calc.score = 100 /\ calc.sol_spent >= 5000 /\ calc.confidence = 1000

\* a learning cycle with sufficient data has just run
LearnedStep == save_pc = "idle" /\ save_pc' = "writing"

\* C24: after every learning cycle with sufficient data min_confidence is in
\* [0.40, 0.85], position_scale in [0.30, 2.50] and every wallet_trust entry
\* in [0.10, 3.00], whatever strategy was loaded before the cycle.
C24_LearnedStrategyInRange ==
    [][ LearnedStep =>
            /\ strategy'.min_confidence >= 400 /\ strategy'.min_confidence <= 850
            /\ strategy'.position_scale >= 30 /\ strategy'.position_scale <= 250
            /\ \A addr \in DOMAIN strategy'.wallet_trust :
                   /\ strategy'.wallet_trust[addr] >= 10
                   /\ strategy'.wallet_trust[addr] <= 300
      ]_vars

\* C25: saving the strategy is atomic: during and after a save, a crash
\* part-way included, the file holds the complete old or the complete new
\* strategy.
C25_SaveAtomic ==
    strategy_file = save_hist.old \/ strategy_file = save_hist.new

C27_MonitoredWithinCap ==
    Cardinality(get_monitored_wallets(wallet_rows)) <= max_monitored_wallets

\* C28: on every exit path of the run loops (normal return, cancellation,
\* or an exception escaping a task) close has been called, when the process
\* has exited, on every component that was initialised: executor, signal
\* validator, position manager, chain client and store.
C28_ClosedOnEveryExit ==
    (life.pc = "exited" /\ life.exit \in {"return", "cancelled", "exception"})
        => \A c \in {"executor", "sig_gen", "pos_manager", "solana", "db"} :
              c \in life.initialised => c \in life.closed

\* C29: for every open position of the current tick that was opened from a
\* signal of source type T (human, bot or consensus), the Position Manager
\* decides with T's rules of the exit-rules table: it exits on max_hold_time
\* once the position was held T's max-hold time, and otherwise on stop_loss
\* exactly when the price is at or below entry x T's stop-loss multiplier.
C29_ExitRulesOfSourceType ==
    \A k \in 1..Len(pm_queue), price \in PriceInputs \ {0} :
        LET position == pm_queue[k]
            rules == EXIT_RULES[position.signal_source]
            held == now - position.opened_at
            d == ExitDecision(position, price, now)
        IN  /\ held >= rules.max_hold_hours => d.reason = "max_hold_time"
            /\ held < rules.max_hold_hours =>
                  (d.reason = "stop_loss"
                      <=> price * 10 <= rules.sl_multiplier * position.entry_price_usd)

\* C30: when a live buy is confirmed, the position it opens carries the
\* stop-loss price entry x sl_multiplier and the take-profit ladder of the
\* signal's source type from the exit-rules table.
C30_LivePositionCarriesSourceRules ==
    [][(trading_mode = "live" /\ Len(positions') = Len(positions) + 1)
        => LET opened == positions'[Len(positions')]
               rules == EXIT_RULES[opened.signal_source]
           IN  /\ opened.stop_loss_price
                      = (opened.entry_price_usd * rules.sl_multiplier) \div 10
               /\ opened.take_profit_levels = RulesLadder(opened.signal_source)]_vars

\* C32: after the Brain issued a buy decision for a mint at time t, it issues
\* no further buy decision for that mint before t + cooldown_seconds: every
\* buy decision a cycle issues is for a mint whose last buy decision lies at
\* least cooldown_seconds back.
C32_CooldownBetweenBuys ==
    [][(brain_queue = << >> /\ brain_queue' # << >>)
        => \A k \in 1..Len(brain_queue') :
              now - recent_decisions[brain_queue'[k].token_mint] >= cooldown_seconds]_vars

\* a cycle that ran within the cooldown of an earlier buy decision for the
\* same mint skipped it
C32_Witness ==
    \E i, j \in 1..Len(journal.rows) :
        /\ i < j
        /\ journal.rows[i].decision = "buy"
        /\ journal.rows[j].token_mint = journal.rows[i].token_mint
        /\ journal.rows[j].reason = "cooldown_active"
        /\ journal.rows[j].created_at - journal.rows[i].created_at < cooldown_seconds

\* C33: each opportunity of a Brain cycle produces exactly one journal row,
\* so the increase of stats.total_decisions in a cycle equals the number of
\* journal rows the cycle wrote, also when the cycle stops at
\* max_concurrent_decisions.
C33_OneRowPerOpportunity ==
    [][ journal'.rows # journal.rows
        => Len(journal'.rows) - Len(journal.rows)
             = StatsIncrease(aggregate_signals(signals, now), brain_queue').total_decisions
      ]_vars

\* C34: when the executor carries out a Brain buy decision and returns a
\* trade id, the decision's journal row is marked executed and linked to
\* that trade.
C34_ExecutedDecisionLinked ==
    [][(brain_queue # << >> /\ brain_queue' = Tail(brain_queue)
          /\ Len(trades') = Len(trades) + 1)
        => \E j \in 1..Len(journal'.rows) :
              /\ journal'.rows[j].decision = "buy"
              /\ journal'.rows[j].token_mint = Head(brain_queue).token_mint
              /\ journal'.rows[j].executed
              /\ journal'.rows[j].trade_id = Len(trades')]_vars

\* C35: for every Brain buy decision carried out by the executor, the size
\* of the resulting trade and position is the decision's amount
\* base x position_scale x (0.5 + confidence), capped at max_position_size
\* (the trade's amount is in 0.001 SOL, the decision's in 0.000001 SOL).
C35_BrainBuySize ==
    [][(brain_queue # << >> /\ brain_queue' = Tail(brain_queue)
          /\ Len(trades') = Len(trades) + 1)
        => /\ trades'[Len(trades')].amount_sol * 1000 = Head(brain_queue).amount_sol
           /\ Len(positions') = Len(positions) + 1
                 => positions'[Len(positions')].amount_sol_invested * 1000
                        = Head(brain_queue).amount_sol]_vars


\* C31: validate_signal applies its gates in the fixed order kill switch,
\* blacklist, max open positions, daily loss, per-token cap, liquidity and
\* market cap, honeypot; the first failing gate alone determines the skip
\* reason and no later gate has any effect: the kill switch is engaged by
\* the daily-loss gate only when that gate is the first to fail, and the
\* token data is attached to the signal only when the first five gates pass.
C31_GatesInOrder ==
    (calc.fn = "validate" /\ calc.done) =>
        LET td == calc.token_data
            existing == get_position_by_token(calc.pos, calc.mint)
            first ==
                IF calc.paused THEN "paused"
                ELSE IF calc.mint \in token_blacklist THEN "blacklisted"
                ELSE IF get_open_position_count(calc.pos) >= max_open_positions
                THEN "max_positions_reached"
                ELSE IF get_todays_pnl(calc.tr, DayLen) <= 0 - max_daily_loss_sol
                THEN "daily_loss_limit"
                ELSE IF existing # 0
                        /\ calc.pos[existing].amount_sol_invested >= max_position_size_sol
                THEN "max_position_size"
                ELSE IF td.has_data /\ td.liquidity_usd < min_liquidity_usd
                THEN "low_liquidity"
                ELSE IF td.has_data /\ td.market_cap_usd > 0
                        /\ td.market_cap_usd < min_copy_trade_mcap_usd
                THEN "mcap_too_low"
                ELSE IF td.has_data /\ td.market_cap_usd > max_copy_trade_mcap_usd
                THEN "mcap_too_high"
                ELSE IF calc.is_honeypot THEN "honeypot_detected"
                ELSE ""
            early == first \in {"paused", "blacklisted", "max_positions_reached",
                                "daily_loss_limit", "max_position_size"}
            v == calc.verdict
        IN  /\ v.reason = first
            /\ v.should_trade <=> first = ""
            /\ v.paused <=> (calc.paused \/ first = "daily_loss_limit")
            /\ early => v.enriched.price_usd = 0
            /\ first # "" => v.recent_buys = [m \in GateMints |-> << >>]
            /\ first \notin {"", "paused"} => v.signals[1].skip_reason = first
            /\ first \in {"", "paused"} => v.signals[1].skip_reason = ""

\* a signal that fails the blacklist gate while the position cap, the loss
\* limit and the honeypot check would fail as well
C31_Witness ==
    /\ calc.fn = "validate"
    /\ calc.done
    /\ ~calc.paused
    /\ calc.mint \in token_blacklist
    /\ get_open_position_count(calc.pos) >= max_open_positions
    /\ get_todays_pnl(calc.tr, DayLen) <= 0 - max_daily_loss_sol
    /\ calc.is_honeypot
    /\ calc.verdict.reason = "blacklisted"
    /\ ~calc.verdict.paused

\* C38: the daily-loss kill switch engages only when realised losses from
\* sells reach the limit: whenever a step other than the operator's /pause
\* engages the switch, the trades of the day hold a confirmed sell; buys
\* alone never engage it.
C38_BuysAloneNeverPause ==
    [][ (~trading_paused /\ trading_paused' /\ ~_cmd_pause)
        => \E i \in 1..Len(trades') :
             /\ trades'[i].side = "sell"
             /\ trades'[i].status = "confirmed"
             /\ Day(trades'[i].created_at) = Day(now') ]_vars

\* C39: recording the members of a cluster never changes the score or the
\* monitored flag of a wallet that already has a row in table wallets; only
\* the promotion of a side wallet may set the flag.
C39_MemberKeepsExistingRow ==
    [][ (\E members \in (SUBSET Addresses) \ {{}} :
           \E side_wallets \in SideWalletLists(members) :
             DetectCluster(members, side_wallets))
        => \A a \in Addresses :
             wallet_rows[a].present =>
               /\ wallet_rows'[a].total_score = wallet_rows[a].total_score
               /\ wallet_rows[a].is_monitored => wallet_rows'[a].is_monitored ]_vars

\* C40: calculate_position_size is non-decreasing in the confidence: at the
\* same balance the higher confidence never gets the smaller size.
C40_SizeMonotoneInConfidence ==
    (calc.fn = "position_size" /\ calc.done) => calc.size_lower <= calc.size_higher

\* C36: for every monitored wallet, one flagged after the Monitor started
\* included, the Monitor emits signals only for transactions newer than the
\* last signature it has seen, and never for a transaction the wallet made
\* before it was monitored.
C36_NoSignalForOldTransactions ==
    \A k \in 1..Len(emitted) :
        emitted[k].idx > Len(History[emitted[k].wallet])

\* C37: under any interleaving of the Monitor's signal handler, the Brain
\* loop and the Position Manager, the number of open positions never
\* exceeds max_open_positions.
C37_OpenPositionsWithinCap ==
    Cardinality(OpenIds(positions)) <= max_open_positions
====
